---- MODULE Spec2Model ----
(***************************************************************************)
(* The generation-file key-value engine of project2 (src/project2/src/kv.rs) *)
(* as a state machine over a directory of <gen>.log / <gen>.tmp files.      *)
(*                                                                         *)
(* A file is a sequence of records; a record carries its encoded length,   *)
(* so byte offsets, pointers {seq, pos, len} and the thresholds keep their *)
(* values in bytes.  The writer and every reader are file handles: a       *)
(* handle stays on its inode when the name is deleted or replaced, which   *)
(* `detached` records.                                                     *)
(***************************************************************************)
EXTENDS Integers, Sequences, FiniteSets, TLC

\* ------------------------------------------------------------ constants
COMPACTABLE_THRESHOLD == 32 * 1024
COMPACTED_ONCE_BYTES == 16 * 1024
FILE_THRESHOLD == 32 * 1024

\* {"Set":{"key":"<k>","value":"<v>"}} and {"Rm":{"key":"<k>"}} (serde_json,
\* externally tagged enum): the bytes around the key and the value.
SetOverhead == 29
RmOverhead == 17

\* ------------------------------------------------------------ bounds
Keys == {"a", "b", "c", "d"}
ShortKeyLen == 1
LongKeyLen == 16367
HugeKeyLen == 24577
ValueLen == 8162
StaleValueLen == 5470
MidValueLen == 12970
LargeValueLen == 26970
MaxOps == 4
MaxOpens == 1

\* a and b are short keys; the Rm record of c is COMPACTED_ONCE_BYTES long; the
\* Set record of d is FILE_THRESHOLD long
KeyLen(k) ==
    CASE k = "c" -> LongKeyLen
      [] k \in {"d", "B1", "B2", "B3", "F4", "F5"} -> HugeKeyLen
      [] OTHER -> ShortKeyLen
\* the length of the value a call gives to key k
ValLen(k) ==
    CASE k \in {"x1", "x2", "x3"} -> StaleValueLen + (CHOOSE i \in 1..3 : k = <<"x1", "x2", "x3">>[i])
      [] k = "y" -> StaleValueLen
      [] k \in {"m3", "m4"} -> MidValueLen
      [] k \in {"M1", "M2"} -> LargeValueLen
      [] OTHER -> ValueLen
SetLen(k) == SetOverhead + KeyLen(k) + ValLen(k)
RmLen(k) == RmOverhead + KeyLen(k)

\* ------------------------------------------------------------ helpers
EmptyMap == [x \in {} |-> 0]
MapPut(m, k, v) == [x \in DOMAIN m \cup {k} |-> IF x = k THEN v ELSE m[x]]
MapDel(m, k) == [x \in DOMAIN m \ {k} |-> m[x]]
MapAdd(m, k, n) == MapPut(m, k, IF k \in DOMAIN m THEN m[k] + n ELSE n)
\* extend that keeps only the new entries
MapExtend_OnlyNew(m, n) == n

MapExtend(m, n) == [x \in DOMAIN m \cup DOMAIN n |-> IF x \in DOMAIN n THEN n[x] ELSE m[x]]

RECURSIVE Perms(_)
Perms(S) ==
    IF S = {} THEN {<<>>}
    ELSE UNION {{<<x>> \o p : p \in Perms(S \ {x})} : x \in S}

RECURSIVE SumTo(_, _)
SumTo(c, n) == IF n = 0 THEN 0 ELSE SumTo(c, n - 1) + c[n].len

\* the byte offset of record i of file content c, and the file's size
Offset(c, i) == SumTo(c, i - 1)
Size(c) == SumTo(c, Len(c))

Command_set(k, v) == [t |-> "Set", key |-> k, value |-> v, len |-> SetLen(k)]
Command_rm(k) == [t |-> "Rm", key |-> k, value |-> 0, len |-> RmLen(k)]
\* n bytes that are no complete record: a torn append, or the tail of a
\* record entered in its middle
Junk(n) == [t |-> "Junk", key |-> "", value |-> 0, len |-> n]

Pointer(seq, pos, len) == [seq |-> seq, pos |-> pos, len |-> len]

LogName(g) == <<g, "log">>
TmpName(g) == <<g, "tmp">>

\* serde_json::from_reader over reader.take(len) after seek(pos): exactly one
\* record must fill [pos, pos+len); anything else is a decode error.
ReadAt(c, pos, len) ==
    LET I == {i \in 1..Len(c) : Offset(c, i) = pos /\ c[i].len = len /\ c[i].t # "Junk"}
    IN IF I = {} THEN Junk(len) ELSE c[CHOOSE i \in I : TRUE]

\* the bytes from pos to the end of the file (std::io::copy reads to EOF)
CopyFrom(c, pos) ==
    IF pos >= Size(c) THEN <<>>
    ELSE LET i == CHOOSE j \in 1..Len(c) : Offset(c, j) <= pos /\ pos < Offset(c, j) + c[j].len
         IN IF Offset(c, i) = pos THEN SubSeq(c, i, Len(c))
            ELSE <<Junk(Offset(c, i) + c[i].len - pos)>> \o SubSeq(c, i + 1, Len(c))

\* ------------------------------------------------------------ state
VARIABLES
    dir,                \* the data directory: file name -> content
    detached,           \* gen -> content of an inode that has lost its name while a handle of the store is open on it
    status,             \* "open": a KvStore exists; "closed": none (dropped or the process stopped); "failed": open returned Err
    sequence_no,        \* KvStore.sequence_no
    wgen,               \* the generation whose file KvStore.writer was opened on
    readers,            \* keys of KvStore.readers
    index,              \* KvStore.index : key -> Pointer
    uncompacted,        \* KvStore.stats.uncompacted : gen -> bytes
    total_uncompacted,  \* KvStore.stats.total_uncompacted
    live,               \* history: key -> value of the last set written for it, 0 after a remove
    removed,            \* history: keys whose last call on this store was a remove that returned Ok
    seen,               \* history: the kinds of calls and events so far
    gone,               \* history: how the store last went away: "close", "crash", "torn", "panic"
    before,             \* history: key -> what get returned when the store last went away
    nops,               \* number of set/remove calls so far
    opens,              \* number of times the store went away so far
    last,               \* the last call or event and its result
    \* project4, engine/kvs.rs: one store behind Arc<RwLock<..>>, used by threads
    disk,               \* the data directory: file name -> bytes that have reached the file
    inner,              \* cell -> SharedKvStore; the cell of Handle(t) is the store thread t uses
    lock,               \* cell -> the thread that holds the RwLock of that cell for writing, 0: none
    pc,                 \* thread -> where it is in its call
    call,               \* thread -> the call it runs and the locals of that call
    serial,             \* history: the writes in the order in which they changed an index
    returned,           \* history: key -> how many writes of that key in `serial` have returned
    ncalls,             \* number of calls so far
    \* project4, thread_pool/shared_pool.rs
    pool,               \* "alive", "dropped" (the Sender is gone), "panicked" (spawn panicked)
    workers,            \* worker -> "polling", "running" or "exited"
    job,                \* worker -> the kind of job it runs
    sending,            \* the job a spawn is blocked on in send (zero-capacity channel), "none"
    spawned,            \* number of spawn calls so far
    caught,             \* history: worker -> number of job panics it has caught
    ran,                \* history: job number -> the worker that took it, how often it was started and ended
    \* project4, server.rs
    stop_flag,          \* the AtomicBool that ThreadHandle and KvServer::run share
    acceptor,           \* where the thread of KvServer::run is: "accept", "check", "spawn", "stopped"
    backlog,            \* the connections made to the listener and not yet yielded by incoming()
    stream,             \* the connection that incoming() yielded last
    handle,             \* ThreadHandle::shutdown: "idle", "flagged", "returned", "failed"
    fate                \* history: connection -> when it was accepted and the job that got it

kvVars == <<dir, detached, status, sequence_no, wgen, readers, index, uncompacted,
            total_uncompacted, live, removed, seen, gone, before, nops, opens, last>>
sharedVars == <<disk, inner, lock, pc, call, serial, returned, ncalls>>
poolVars == <<pool, workers, job, sending, spawned, caught, ran>>
serverVars == <<stop_flag, acceptor, backlog, stream, handle, fate>>
vars == <<kvVars, sharedVars, poolVars, serverVars>>

\* the file system and the KvStore struct as one value
World ==
    [dir |-> dir, detached |-> detached, sequence_no |-> sequence_no, wgen |-> wgen,
     readers |-> readers, index |-> index, uncompacted |-> uncompacted,
     total_uncompacted |-> total_uncompacted]

\* no KvStore: only the directory is left
NoStore(d) ==
    [dir |-> d, detached |-> EmptyMap, sequence_no |-> 0, wgen |-> 0, readers |-> {},
     index |-> EmptyMap, uncompacted |-> EmptyMap, total_uncompacted |-> 0]

\* ------------------------------------------------------------ files
\* what a read through readers[g] sees: the inode the reader was opened on
ReaderContent(w, g) ==
    IF g \in DOMAIN w.detached THEN w.detached[g] ELSE w.dir[LogName(g)]

\* the writer's inode is the one readers[wgen] was opened on
WriterContent(w) == ReaderContent(w, w.wgen)

\* Writer::pos: the file is opened with append(true), and nothing else writes
\* it, so stream_position is its size
WriterPos(w) == Size(WriterContent(w))

\* a write through the writer (append mode, unbuffered)
WriterWrite(w, rec) ==
    IF w.wgen \in DOMAIN w.detached
    THEN [w EXCEPT !.detached = MapPut(@, w.wgen, Append(w.detached[w.wgen], rec))]
    ELSE [w EXCEPT !.dir = MapPut(@, LogName(w.wgen), Append(w.dir[LogName(w.wgen)], rec))]

\* a name leaves the directory (remove_file, or the target of a rename): an
\* open reader of the store keeps the inode
Unlink(w, name) ==
    IF name \notin DOMAIN w.dir THEN w
    ELSE LET g == name[1]
             keep == name[2] = "log" /\ g \in w.readers /\ g \notin DOMAIN w.detached
         IN [w EXCEPT !.dir = MapDel(@, name),
                      !.detached = IF keep THEN MapPut(@, g, w.dir[name]) ELSE @]

\* ------------------------------------------------------------ open
RECURSIVE SortedSeq(_)
SortedSeq(S) ==
    IF S = {} THEN <<>>
    ELSE LET m == CHOOSE x \in S : \A y \in S : x <= y
         IN <<m>> \o SortedSeq(S \ {m})

\* seq_list without the filter on the extension
SeqList_AnyExtension(d) == SortedSeq({n[1] : n \in DOMAIN d})

\* seq_list: the stems of the *.log files, ascending
SeqList(d) == SortedSeq({n[1] : n \in {m \in DOMAIN d : m[2] = "log"}})

\* load that stops at a record that does not decode and returns Ok
LoadError_Ignored(acc) == acc

\* `cmd?` in load: a record that does not decode ends load, and open, with Err
LoadError(acc) == [acc EXCEPT !.ok = FALSE]

\* KvStore::load, from record i on.  acc = [index, uncompacted, total_uncompacted, ok]
RECURSIVE LoadFrom(_, _, _, _)
LoadFrom(c, seq, i, acc) ==
    IF i > Len(c) THEN acc
    ELSE LET r == c[i]
             ptr == Pointer(seq, Offset(c, i), r.len)
             has == r.key \in DOMAIN acc.index
             old == acc.index[r.key]
         IN CASE r.t = "Junk" -> LoadError(acc)
              [] r.t = "Set" ->
                    LoadFrom(c, seq, i + 1,
                        IF has
                        THEN [acc EXCEPT !.index = MapPut(@, r.key, ptr),
                                         !.total_uncompacted = @ + old.len,
                                         !.uncompacted = MapAdd(@, seq, old.len)]
                        ELSE [acc EXCEPT !.index = MapPut(@, r.key, ptr)])
              [] r.t = "Rm" ->
                    LoadFrom(c, seq, i + 1,
                        IF has
                        THEN [acc EXCEPT !.index = MapDel(@, r.key),
                                         !.uncompacted = MapAdd(MapAdd(@, seq, old.len), seq, r.len),
                                         !.total_uncompacted = @ + old.len + r.len]
                        ELSE [acc EXCEPT !.uncompacted = MapAdd(@, seq, r.len),
                                         !.total_uncompacted = @ + r.len])

Load(d, seq, acc) ==
    IF LogName(seq) \notin DOMAIN d THEN [acc EXCEPT !.ok = FALSE]
    ELSE LoadFrom(d[LogName(seq)], seq, 1, acc)

\* the loop of open over seq_list; a failed load ends it (the ? operator)
RECURSIVE LoadAll(_, _, _, _)
LoadAll(d, list, i, acc) ==
    IF i > Len(list) \/ ~acc.ok THEN acc
    ELSE LoadAll(d, list, i + 1, Load(d, list[i], acc))

\* open that puts the writer on the largest generation it found
Open__AppendsToLast(d) ==
    LET list == SeqList(d)
        acc == LoadAll(d, list, 1,
                   [index |-> EmptyMap, uncompacted |-> EmptyMap, total_uncompacted |-> 0, ok |-> TRUE])
        seq == IF Len(list) = 0 THEN 1 ELSE list[Len(list)]
    IN IF ~acc.ok
       THEN [w |-> NoStore(d), res |-> "Err"]
       ELSE [w |-> [dir |-> IF LogName(seq) \in DOMAIN d THEN d ELSE MapPut(d, LogName(seq), <<>>),
                    detached |-> EmptyMap,
                    sequence_no |-> seq, wgen |-> seq,
                    readers |-> {list[j] : j \in 1..Len(list)} \cup {seq},
                    index |-> acc.index, uncompacted |-> acc.uncompacted,
                    total_uncompacted |-> acc.total_uncompacted],
             res |-> "Ok"]

\* KvStore::open on directory d: [w, res]
Open_(d) ==
    LET list == SeqList(d)
        acc == LoadAll(d, list, 1,
                   [index |-> EmptyMap, uncompacted |-> EmptyMap, total_uncompacted |-> 0, ok |-> TRUE])
        seq == IF Len(list) = 0 THEN 1 ELSE list[Len(list)] + 1
    IN IF ~acc.ok \/ LogName(seq) \in DOMAIN d
       THEN [w |-> NoStore(d), res |-> "Err"]
       ELSE [w |-> [dir |-> MapPut(d, LogName(seq), <<>>), detached |-> EmptyMap,
                    sequence_no |-> seq, wgen |-> seq,
                    readers |-> {list[j] : j \in 1..Len(list)} \cup {seq},
                    index |-> acc.index, uncompacted |-> acc.uncompacted,
                    total_uncompacted |-> acc.total_uncompacted],
             res |-> "Ok"]

\* ------------------------------------------------------------ get
None == [kind |-> "None", value |-> 0]
Some(v) == [kind |-> "Some", value |-> v]
GetErr == [kind |-> "Err", value |-> 0]
GetPanic == [kind |-> "Panic", value |-> 0]

\* KvStore::get
Get_(w, k) ==
    IF k \notin DOMAIN w.index THEN None
    ELSE LET p == w.index[k]
         IN IF p.seq \notin w.readers THEN GetPanic
            ELSE LET r == ReadAt(ReaderContent(w, p.seq), p.pos, p.len)
                 IN IF r.t = "Set" THEN Some(r.value) ELSE GetErr

\* ------------------------------------------------------------ set, remove: the write
\* KvStore::set up to the index and statistics update
SetWrite(w, k, v) ==
    LET rec == Command_set(k, v)
        ptr == Pointer(w.sequence_no, WriterPos(w), rec.len)
        w1 == WriterWrite(w, rec)
    IN IF k \in DOMAIN w.index
       THEN [w1 EXCEPT !.index = MapPut(@, k, ptr),
                       !.uncompacted = MapAdd(@, w.index[k].seq, w.index[k].len),
                       !.total_uncompacted = @ + w.index[k].len]
       ELSE [w1 EXCEPT !.index = MapPut(@, k, ptr)]

\* remove that leaves the key in the index
RemoveWrite_KeepsIndex(w, k) ==
    LET rec == Command_rm(k)
        w1 == WriterWrite(w, rec)
    IN IF k \in DOMAIN w.index
       THEN [w |-> [w1 EXCEPT !.uncompacted = MapAdd(MapAdd(@, w.sequence_no, rec.len),
                                                     w.index[k].seq, w.index[k].len),
                              !.total_uncompacted = @ + w.index[k].len + rec.len],
             res |-> "Ok"]
       ELSE [w |-> w1, res |-> "KeyNotFound"]

\* KvStore::remove up to the index and statistics update: [w, res]
RemoveWrite(w, k) ==
    LET rec == Command_rm(k)
        w1 == WriterWrite(w, rec)
    IN IF k \in DOMAIN w.index
       THEN [w |-> [w1 EXCEPT !.index = MapDel(@, k),
                              !.uncompacted = MapAdd(MapAdd(@, w.sequence_no, rec.len),
                                                     w.index[k].seq, w.index[k].len),
                              !.total_uncompacted = @ + w.index[k].len + rec.len],
             res |-> "Ok"]
       ELSE [w |-> w1, res |-> "KeyNotFound"]

\* set whose index is updated although the append failed
SetFailed_IndexFirst(w, k, v, n) ==
    [w |-> [(IF n = 0 THEN w ELSE WriterWrite(w, Junk(n)))
                EXCEPT !.index = MapPut(@, k, Pointer(w.sequence_no, WriterPos(w), n))],
     res |-> "Io"]

\* KvStore::set when serde_json::to_writer or flush returns Err after n bytes
\* of the record have reached the file: the ? returns before index.insert
SetFailed(w, k, v, n) ==
    [w |-> IF n = 0 THEN w ELSE WriterWrite(w, Junk(n)), res |-> "Io"]

\* KvStore::remove when serde_json::to_writer returns Err after n bytes of the
\* record have reached the file: the ? returns before index.remove
RemoveFailed(w, k, n) ==
    [w |-> IF n = 0 THEN w ELSE WriterWrite(w, Junk(n)), res |-> "Io"]

\* ------------------------------------------------------------ scroll
\* KvStore::scroll: [w, res].  sequence_no is advanced before create_new can fail.
Scroll(w, scroll_step) ==
    LET seq == w.sequence_no + scroll_step
        w1 == [w EXCEPT !.sequence_no = seq]
    IN IF LogName(seq) \in DOMAIN w.dir
       THEN [w |-> w1, res |-> "Err"]
       ELSE [w |-> [w1 EXCEPT !.dir = MapPut(@, LogName(seq), <<>>),
                              !.wgen = seq,
                              !.readers = @ \cup {seq}],
             res |-> "Ok"]

\* KvStore::try_trigger_scroll
TryTriggerScroll(w) ==
    IF WriterPos(w) >= FILE_THRESHOLD THEN Scroll(w, 1) ELSE [w |-> w, res |-> "Ok"]

\* ------------------------------------------------------------ compaction: selection
\* the loop over uncompacted_entrys: push, add, break at COMPACTED_ONCE_BYTES
RECURSIVE SelectLoop(_, _, _, _, _)
SelectLoop(unc, order, i, seqs, bytes) ==
    IF i > Len(order) THEN [seqs |-> seqs, bytes |-> bytes]
    ELSE LET b == bytes + unc[order[i]]
         IN IF b >= COMPACTED_ONCE_BYTES
            THEN [seqs |-> Append(seqs, order[i]), bytes |-> b]
            ELSE SelectLoop(unc, order, i + 1, Append(seqs, order[i]), b)

\* the entries of the HashMap as they come, without the sort
SortedOrders_Unsorted(unc) == Perms(DOMAIN unc)

\* sort_by(|a, b| b.1.cmp(&a.1)) over the entries of a HashMap: descending
\* staleness, entries of equal staleness in any order
SortedOrders(unc) ==
    {o \in Perms(DOMAIN unc) : \A i \in 1..(Len(o) - 1) : unc[o[i]] >= unc[o[i + 1]]}

\* the possible [to_be_compacted_seqs, to_be_compacted_bytes]
Selections(unc) == {SelectLoop(unc, o, 1, <<>>, 0) : o \in SortedOrders(unc)}

SeqSet(q) == {q[i] : i \in 1..Len(q)}

\* the orders in which self.index.keys() can yield the keys that pass the
\* filter to_be_compacted_seqs.contains(&pointer.seq)
KeyOrders(w, seqs) == Perms({k \in DOMAIN w.index : w.index[k].seq \in SeqSet(seqs)})

\* ------------------------------------------------------------ compaction: rewrite and commit
DiskOp(op, name, to, data) == [op |-> op, name |-> name, to |-> to, data |-> data]
CreateNew(name) == DiskOp("create", name, name, <<>>)
AppendTo(name, data) == DiskOp("append", name, name, data)
Rename(from, to) == DiskOp("rename", from, to, <<>>)
RemoveFile(name) == DiskOp("delete", name, name, <<>>)

\* what one copy sends to the compaction writer: reader.take(pointer.len) is
\* dropped unused, and io::copy(reader, ..) runs to the end of the source file
CopiedBytes(w, pointer) == CopyFrom(ReaderContent(w, pointer.seq), pointer.pos)

\* the loop over self.index.keys().  compact_writer is in append mode: each
\* copy lands at the end of the .tmp file, while pos (what compact_writer.pos()
\* returns after the seek to pos + pointer.len) only counts pointer.len.
RECURSIVE Rewrite(_, _, _, _, _, _, _)
Rewrite(w, keys, i, compact_seq, pos, new_index, ops) ==
    IF i > Len(keys)
    THEN [ops |-> ops, new_index |-> new_index, compact_seq |-> compact_seq, panic |-> FALSE]
    ELSE LET pointer == w.index[keys[i]]
         IN IF pointer.seq \notin w.readers
            THEN [ops |-> ops, new_index |-> new_index, compact_seq |-> compact_seq, panic |-> TRUE]
            ELSE LET ops1 == Append(ops, AppendTo(TmpName(compact_seq), CopiedBytes(w, pointer)))
                     idx1 == MapPut(new_index, keys[i], Pointer(compact_seq, pos, pointer.len))
                 IN IF pos + pointer.len >= FILE_THRESHOLD
                    THEN Rewrite(w, keys, i + 1, compact_seq + 1, 0, idx1,
                                 Append(ops1, CreateNew(TmpName(compact_seq + 1))))
                    ELSE Rewrite(w, keys, i + 1, compact_seq, pos + pointer.len, idx1, ops1)

\* commit_compact without the remove_file loop
CommitOps_NoDelete(begin_compact_seq, end_compact_seq, seqs) ==
    [j \in 1..(end_compact_seq - begin_compact_seq) |->
        Rename(TmpName(begin_compact_seq + j - 1), LogName(begin_compact_seq + j - 1))]

\* commit_compact that deletes the inputs before it renames the outputs
CommitOps_DeleteFirst(begin_compact_seq, end_compact_seq, seqs) ==
    [j \in 1..Len(seqs) |-> RemoveFile(LogName(seqs[j]))]
    \o [j \in 1..(end_compact_seq - begin_compact_seq) |->
            Rename(TmpName(begin_compact_seq + j - 1), LogName(begin_compact_seq + j - 1))]

\* commit_compact's file operations, in order: every rename, then every delete
CommitOps(begin_compact_seq, end_compact_seq, seqs) ==
    [j \in 1..(end_compact_seq - begin_compact_seq) |->
        Rename(TmpName(begin_compact_seq + j - 1), LogName(begin_compact_seq + j - 1))]
    \o [j \in 1..Len(seqs) |-> RemoveFile(LogName(seqs[j]))]

\* everything try_trigger_compact does to the directory after the scroll;
\* w is the store after the scroll, begin_compact_seq the old sequence_no + 1
CompactOps(w, begin_compact_seq, seqs, keys) ==
    LET rw == Rewrite(w, keys, 1, begin_compact_seq, 0, EmptyMap, <<>>)
    IN [rw EXCEPT !.ops = <<CreateNew(TmpName(begin_compact_seq))>> \o rw.ops
                          \o (IF rw.panic THEN <<>>
                              ELSE CommitOps(begin_compact_seq, rw.compact_seq + 1, seqs))]

\* one file operation: [w, ok]
ApplyOp(w, o) ==
    CASE o.op = "create" ->
            IF o.name \in DOMAIN w.dir THEN [w |-> w, ok |-> FALSE]
            ELSE [w |-> [w EXCEPT !.dir = MapPut(@, o.name, <<>>)], ok |-> TRUE]
      [] o.op = "append" ->
            [w |-> [w EXCEPT !.dir = MapPut(@, o.name, w.dir[o.name] \o o.data)], ok |-> TRUE]
      [] o.op = "rename" ->
            IF o.name \notin DOMAIN w.dir THEN [w |-> w, ok |-> FALSE]
            ELSE LET w1 == Unlink(w, o.to)
                 IN [w |-> [w1 EXCEPT !.dir = MapPut(MapDel(@, o.name), o.to, w.dir[o.name])],
                     ok |-> TRUE]
      [] o.op = "delete" ->
            IF o.name \notin DOMAIN w.dir THEN [w |-> w, ok |-> FALSE]
            ELSE [w |-> Unlink(w, o.name), ok |-> TRUE]

\* the file operations in order, until one fails ("Err") or the process stops
\* after `limit` of them ("Crash")
RECURSIVE ApplyOps(_, _, _, _)
ApplyOps(w, ops, i, limit) ==
    IF i - 1 = limit THEN [w |-> w, res |-> "Crash"]
    ELSE IF i > Len(ops) THEN [w |-> w, res |-> "Ok"]
    ELSE LET r == ApplyOp(w, ops[i])
         IN IF r.ok THEN ApplyOps(r.w, ops, i + 1, limit) ELSE [w |-> r.w, res |-> "Err"]

NoCrash == 0 - 1

Outcome(w, res, seqs, committed) ==
    [w |-> w, res |-> res, seqs |-> seqs, committed |-> committed]

\* commit_compact that leaves total_uncompacted as it is
CommitMemory_KeepsTotal(w, sel, new_index) ==
    Outcome([w EXCEPT !.uncompacted = [g \in DOMAIN @ \ SeqSet(sel.seqs) |-> @[g]],
                      !.index = MapExtend(@, new_index)],
            "Ok", sel.seqs, TRUE)

\* commit_compact after its file operations: statistics, then the index.
\* (total_uncompacted -= bytes on u64: an underflow panics in a debug build
\* and wraps in a release build; it is kept apart as a panic.)
CommitMemory(w, sel, new_index) ==
    IF sel.bytes > w.total_uncompacted
    THEN Outcome(w, "Panic", sel.seqs, FALSE)
    ELSE Outcome([w EXCEPT !.uncompacted = [g \in DOMAIN @ \ SeqSet(sel.seqs) |-> @[g]],
                           !.total_uncompacted = @ - sel.bytes,
                           !.index = MapExtend(@, new_index)],
                 "Ok", sel.seqs, TRUE)

\* the body of try_trigger_compact for one selection and one key order; the
\* process stops after `limit` file creations, appends, renames and deletes
\* (NoCrash: it does not stop)
RunCompact(w, sel, keys, limit) ==
    IF limit = 0 THEN Outcome(w, "Crash", sel.seqs, FALSE)
    ELSE LET sc == Scroll(w, Len(sel.seqs) + 1)
         IN IF sc.res # "Ok" THEN Outcome(sc.w, "Err", sel.seqs, FALSE)
            ELSE LET plan == CompactOps(sc.w, w.sequence_no + 1, sel.seqs, keys)
                     ap == ApplyOps(sc.w, plan.ops, 1, limit - 1)
                 IN CASE ap.res # "Ok" -> Outcome(ap.w, ap.res, sel.seqs, FALSE)
                      [] ap.res = "Ok" /\ plan.panic -> Outcome(ap.w, "Panic", sel.seqs, FALSE)
                      [] OTHER -> CommitMemory(ap.w, sel, plan.new_index)

\* the number of file operations of that compaction
CompactSteps(w, sel, keys) ==
    LET sc == Scroll(w, Len(sel.seqs) + 1)
    IN IF sc.res # "Ok" THEN 0
       ELSE 1 + Len(CompactOps(sc.w, w.sequence_no + 1, sel.seqs, keys).ops)

\* KvStore::try_trigger_compact: the possible outcomes
TryTriggerCompact(w) ==
    IF w.total_uncompacted >= COMPACTABLE_THRESHOLD
    THEN UNION {{RunCompact(w, sel, keys, NoCrash) : keys \in KeyOrders(w, sel.seqs)}
                    : sel \in Selections(w.uncompacted)}
    ELSE {Outcome(w, "Ok", <<>>, FALSE)}

\* try_trigger_compact()?; try_trigger_scroll()?  at the end of set and remove
Finish(o) ==
    IF o.res # "Ok" THEN o
    ELSE LET sc == TryTriggerScroll(o.w) IN [o EXCEPT !.w = sc.w, !.res = sc.res]

AfterWrite(w) == {Finish(o) : o \in TryTriggerCompact(w)}

\* the directory states a process that stops inside try_trigger_compact can leave
CrashInCompact(w) ==
    IF w.total_uncompacted >= COMPACTABLE_THRESHOLD
    THEN UNION {UNION {{RunCompact(w, sel, keys, n) : n \in 0..CompactSteps(w, sel, keys)}
                          : keys \in KeyOrders(w, sel.seqs)}
                    : sel \in Selections(w.uncompacted)}
    ELSE {}

\* the outcomes of try_trigger_compact when a rename or a remove_file of
\* commit_compact returns Err: the file operations before it are done, the
\* statistics and the index are untouched, and the ? returns the error
FailInCommit(w) ==
    IF w.total_uncompacted >= COMPACTABLE_THRESHOLD
    THEN UNION {UNION {{[RunCompact(w, sel, keys, n) EXCEPT !.res = "CommitErr"] :
                            n \in {m \in 1..(CompactSteps(w, sel, keys) - 1) :
                                      /\ CompactOps(Scroll(w, Len(sel.seqs) + 1).w,
                                                    w.sequence_no + 1, sel.seqs, keys).ops[m].op
                                             \in {"rename", "delete"}
                                      /\ RunCompact(w, sel, keys, m).res = "Crash"}}
                          : keys \in KeyOrders(w, sel.seqs)}
                    : sel \in Selections(w.uncompacted)}
    ELSE {}

\* ------------------------------------------------------------ project4: the shared store
COMPACTION_THRESHOLD == 1024 * 1024

\* {"Remove":{"key":"<k>"}}: the bytes around the key
RemoveOverhead == 21

NThreads == 2
BigValueLen == 600000
MaxCalls == 4

Threads == 1..NThreads
\* the keys the threads use, in the order of BTreeMap<String, _>
KeySeq == <<"a", "b">>
SharedKeys == {KeySeq[i] : i \in 1..Len(KeySeq)}

Command4_set(k, v) ==
    [t |-> "Set", key |-> k, value |-> v, len |-> SetOverhead + ShortKeyLen + BigValueLen]
Command4_remove(k) ==
    [t |-> "Rm", key |-> k, value |-> 0, len |-> RemoveOverhead + ShortKeyLen]

CommandPos(gen, pos, len) == [gen |-> gen, pos |-> pos, len |-> len]

\* a clone that is a store of its own
Handle_Own(t) == t

\* #[derive(Clone)] on KvStore { inner: Arc<RwLock<SharedKvStore>> }: every
\* clone holds the Arc of the one store that open made
Handle(t) == 1

\* only set and remove go through the lock
Guarded_NotGet(op) == op # "get"

\* set, get and remove all start with self.inner.write().unwrap()
Guarded(op) == op \in {"set", "get", "remove"}

\* write() that does not wait
CanLock_Always(l) == TRUE

\* RwLock::write returns once nobody holds the lock
CanLock(l) == l = 0

\* new_log_file that puts no reader into the map; x = [d, st]
NewLogFile_NoReader(x, gen) ==
    [d |-> IF LogName(gen) \in DOMAIN x.d THEN x.d ELSE MapPut(x.d, LogName(gen), <<>>),
     st |-> x.st]

\* new_log_file(path, gen, readers): the file is created if it is missing and
\* a reader of it is put into the readers map
NewLogFile(x, gen) ==
    [d |-> IF LogName(gen) \in DOMAIN x.d THEN x.d ELSE MapPut(x.d, LogName(gen), <<>>),
     st |-> [x.st EXCEPT !.readers = @ \cup {gen}]]

\* flush that leaves the bytes in the buffer
Flush_Skipped(x) == x

\* BufWriterWithPos::flush on self.writer: the buffered bytes reach the file
Flush(x) ==
    IF LogName(x.st.wgen) \in DOMAIN x.d
    THEN [d |-> MapPut(x.d, LogName(x.st.wgen), x.d[LogName(x.st.wgen)] \o x.st.wbuf),
          st |-> [x.st EXCEPT !.wbuf = <<>>]]
    ELSE [x EXCEPT !.st.wbuf = <<>>]

\* KvStore::open of project4 on an empty directory
SharedOpen ==
    LET x == NewLogFile([d |-> EmptyMap,
                         st |-> [readers |-> {}, wbuf |-> <<>>, wgen |-> 1, wpos |-> 0,
                                 current_gen |-> 1, index |-> EmptyMap, uncompacted |-> 0]], 1)
    IN x

\* serde_json::to_writer(&mut self.writer, &cmd): the record is in the BufWriter
ToWriter(st, rec) == [st EXCEPT !.wbuf = Append(@, rec), !.wpos = @ + rec.len]

\* set that forgets the index
SharedSet_index_Stale(st, k, pos) == st

\* SharedKvStore::set: index.insert(key, (current_gen, pos..writer.pos))
SharedSet_index(st, k, pos) ==
    LET ptr == CommandPos(st.current_gen, pos, st.wpos - pos)
    IN IF k \in DOMAIN st.index
       THEN [st EXCEPT !.index = MapPut(@, k, ptr), !.uncompacted = @ + st.index[k].len]
       ELSE [st EXCEPT !.index = MapPut(@, k, ptr)]

\* SharedKvStore::remove: index.remove(&key).expect("key not found"): [st, res]
SharedRemove_index(st, k) ==
    IF k \in DOMAIN st.index
    THEN [st |-> [st EXCEPT !.index = MapDel(@, k), !.uncompacted = @ + st.index[k].len],
          res |-> "Ok"]
    ELSE [st |-> st, res |-> "Panic"]

\* io::copy(&mut reader.take(len), ..) after seek(pos): the bytes of [pos, pos+len)
\* that the file holds
CopyExact(c, pos, len) ==
    IF pos + len <= Size(c)
    THEN <<ReadAt(c, pos, len)>>
    ELSE IF pos < Size(c) THEN <<Junk(Size(c) - pos)>> ELSE <<>>

\* the loop of compact over index.values_mut(), from the i-th key on:
\* [index, buf, new_pos, panic]
RECURSIVE CompactLoop(_, _, _, _)
CompactLoop(x, compaction_gen, i, acc) ==
    IF i > Len(KeySeq) THEN acc
    ELSE IF KeySeq[i] \notin DOMAIN acc.index
    THEN CompactLoop(x, compaction_gen, i + 1, acc)
    ELSE LET cmd_pos == acc.index[KeySeq[i]]
         IN IF cmd_pos.gen \notin x.st.readers \/ LogName(cmd_pos.gen) \notin DOMAIN x.d
            THEN [acc EXCEPT !.panic = TRUE]
            ELSE LET bytes == CopyExact(x.d[LogName(cmd_pos.gen)], cmd_pos.pos, cmd_pos.len)
                     len == Size(bytes)
                 IN CompactLoop(x, compaction_gen, i + 1,
                        [acc EXCEPT !.index = MapPut(@, KeySeq[i],
                                                     CommandPos(compaction_gen, acc.new_pos, len)),
                                    !.buf = @ \o bytes,
                                    !.new_pos = @ + len])

\* a rewrite that puts every record at the start of the compaction file
SharedCompact_rewrite_SamePos(x) ==
    LET compaction_gen == x.st.current_gen + 1
        x1 == Flush(x)
        x2 == NewLogFile([x1 EXCEPT !.st.current_gen = @ + 2], x.st.current_gen + 2)
        x3 == NewLogFile([x2 EXCEPT !.st.wgen = x.st.current_gen + 2, !.st.wpos = 0],
                         compaction_gen)
        lp == CompactLoop(x3, compaction_gen, 1,
                          [index |-> x3.st.index, buf |-> <<>>, new_pos |-> 0, panic |-> FALSE])
    IN [x |-> [x3 EXCEPT !.st.index =
                   [k \in DOMAIN lp.index |-> [lp.index[k] EXCEPT !.pos = 0]]],
        cgen |-> compaction_gen, cbuf |-> lp.buf, panic |-> lp.panic]

\* SharedKvStore::compact up to the end of its loop: the old writer is dropped
\* (which flushes it), the new writer and the compaction file are made, every
\* index entry is copied and rewritten: [x, cgen, cbuf, panic]
SharedCompact_rewrite(x) ==
    LET compaction_gen == x.st.current_gen + 1
        x1 == Flush(x)
        x2 == NewLogFile([x1 EXCEPT !.st.current_gen = @ + 2], x.st.current_gen + 2)
        x3 == NewLogFile([x2 EXCEPT !.st.wgen = x.st.current_gen + 2, !.st.wpos = 0],
                         compaction_gen)
        lp == CompactLoop(x3, compaction_gen, 1,
                          [index |-> x3.st.index, buf |-> <<>>, new_pos |-> 0, panic |-> FALSE])
    IN [x |-> [x3 EXCEPT !.st.index = lp.index],
        cgen |-> compaction_gen, cbuf |-> lp.buf, panic |-> lp.panic]

\* a commit that keeps the files of the stale generations
SharedCompact_commit_KeepsStale(x, cgen, cbuf) ==
    LET d1 == IF LogName(cgen) \in DOMAIN x.d
              THEN MapPut(x.d, LogName(cgen), x.d[LogName(cgen)] \o cbuf) ELSE x.d
    IN [d |-> d1,
        st |-> [x.st EXCEPT !.readers = {r \in @ : r >= cgen}, !.uncompacted = 0]]

\* SharedKvStore::compact from compaction_writer.flush() on: the stale
\* generations lose their reader and their file, uncompacted = 0
SharedCompact_commit(x, cgen, cbuf) ==
    LET stale == {LogName(g) : g \in {r \in x.st.readers : r < cgen}}
        d1 == IF LogName(cgen) \in DOMAIN x.d
              THEN MapPut(x.d, LogName(cgen), x.d[LogName(cgen)] \o cbuf) ELSE x.d
    IN [d |-> [m \in DOMAIN d1 \ stale |-> d1[m]],
        st |-> [x.st EXCEPT !.readers = {r \in @ : r >= cgen}, !.uncompacted = 0]]

\* SharedKvStore::compact when the seek or the io::copy of the i-th entry of
\* the loop returns Err (i = Len(KeySeq) + 1: compaction_writer.flush() does):
\* the entries before it are rewritten in place, and the compaction writer is
\* dropped, whose BufWriter flushes its buffer without reporting an error
SharedCompact_fail(x, i, flushed) ==
    LET r == SharedCompact_rewrite(x)
        done == {KeySeq[j] : j \in 1..(i - 1)} \cap DOMAIN x.st.index
        copied == {n \in 0..Len(r.cbuf) :
                      \A k \in done : r.x.st.index[k].pos + r.x.st.index[k].len
                                          <= Size(SubSeq(r.cbuf, 1, n))}
        bytes == SubSeq(r.cbuf, 1, CHOOSE n \in copied : \A m \in copied : n <= m)
        file == LogName(r.cgen)
    IN [d |-> IF flushed /\ file \in DOMAIN r.x.d
              THEN MapPut(r.x.d, file, r.x.d[file] \o bytes) ELSE r.x.d,
        st |-> [r.x.st EXCEPT !.index = [k \in DOMAIN x.st.index |->
                                            IF k \in done THEN r.x.st.index[k]
                                            ELSE x.st.index[k]]]]

\* SharedKvStore::get from the reader lookup on, for the entry cmd_pos
SharedGet_read(x, cmd_pos) ==
    IF cmd_pos.gen \notin x.st.readers \/ LogName(cmd_pos.gen) \notin DOMAIN x.d
    THEN GetPanic
    ELSE LET r == ReadAt(x.d[LogName(cmd_pos.gen)], cmd_pos.pos, cmd_pos.len)
         IN IF r.t = "Set" THEN Some(r.value) ELSE GetErr

\* SharedKvStore::get as one call
SharedGet(x, k) ==
    IF k \in DOMAIN x.st.index THEN SharedGet_read(x, x.st.index[k]) ELSE None

\* a thread that runs no call
NoCall ==
    [op |-> "", key |-> "", value |-> 0, floor |-> 0, pos |-> 0, at |-> 0,
     cmd_pos |-> CommandPos(0, 0, 0), cgen |-> 0, cbuf |-> <<>>, res |-> None]

\* the state after KvStore::open and the cloning of the handle
SharedStart ==
    /\ disk = SharedOpen.d
    /\ inner = [h \in Threads |-> SharedOpen.st]
    /\ lock = [h \in Threads |-> 0]
    /\ pc = [t \in Threads |-> "idle"]
    /\ call = [t \in Threads |-> NoCall]
    /\ serial = <<>>
    /\ returned = [k \in SharedKeys |-> 0]
    /\ ncalls = 0

\* ------------------------------------------------------------ project4: the thread pool
PoolThreads == 2
MaxJobs == 3

PoolWorkers == 1..PoolThreads

\* a worker loop that calls the job directly
CatchUnwind_Missing(kind) == IF kind = "panic" THEN "exited" ELSE "polling"

\* run: catch_unwind(AssertUnwindSafe(|| f())) returns Ok or Err, and the loop
\* goes on to the next try_recv
CatchUnwind(kind) == "polling"

\* the client connections; 0 is the connection ThreadHandle::shutdown makes
MaxConns == 2
Conns == 0..MaxConns

\* KvServer::serve: the flag is false, the listener is bound, run starts
ServerStart ==
    /\ stop_flag = FALSE
    /\ acceptor = "accept"
    /\ backlog = <<>>
    /\ stream = 0
    /\ handle = "idle"
    /\ fate = [c \in Conns |-> [accepted |-> "no", job |-> 0]]

\* a try_recv that leaves the job with the blocked sender
AfterRecv_KeepsJob(s) == s

\* run: rx.try_recv() returns Ok(f): the job passes from the sender blocked in
\* send to the worker, and the send returns
AfterRecv(s) == "none"

\* a worker that treats Disconnected as Empty
OnDisconnected_KeepsPolling == "polling"

\* run: Err(TryRecvError::Disconnected) => break
OnDisconnected == "exited"

\* a job that nobody has taken yet
NewJob == [w |-> 0, starts |-> 0, ends |-> 0]

\* SharedQueueThreadPool::new(PoolThreads)
PoolStart ==
    /\ pool = "alive"
    /\ workers = [w \in PoolWorkers |-> "polling"]
    /\ job = [w \in PoolWorkers |-> "none"]
    /\ sending = "none"
    /\ spawned = 0
    /\ caught = [w \in PoolWorkers |-> 0]
    /\ ran = <<>>

\* ------------------------------------------------------------ actions
Install(w) ==
    /\ dir' = w.dir
    /\ detached' = w.detached
    /\ sequence_no' = w.sequence_no
    /\ wgen' = w.wgen
    /\ readers' = w.readers
    /\ index' = w.index
    /\ uncompacted' = w.uncompacted
    /\ total_uncompacted' = w.total_uncompacted

\* what get returns for every key on store w
Gets(w) == [k \in Keys |-> Get_(w, k)]

Event(op, k, res, grew, seqs, committed) ==
    [op |-> op, key |-> k, res |-> res, grew |-> grew, seqs |-> seqs, committed |-> committed]

\* the store goes away (dropped, or the process stopped or panicked): only the
\* directory d is left; ref is the store whose answers are remembered
Gone(d, ref, how) ==
    /\ Install(NoStore(d))
    /\ status' = "closed"
    /\ before' = Gets(ref)
    /\ gone' = how
    /\ opens' = opens + 1
    /\ removed' = {}

\* a call that ran to its end with outcome o (a panic ends the process)
Returned(o, ref, rem) ==
    IF o.res = "Panic"
    THEN Gone(o.w.dir, ref, "panic")
    ELSE Install(o.w) /\ status' = "open" /\ removed' = rem /\ UNCHANGED <<before, gone, opens>>

\* KvStore::open on an empty directory
Init ==
    /\ dir = Open_(EmptyMap).w.dir
    /\ detached = EmptyMap
    /\ sequence_no = Open_(EmptyMap).w.sequence_no
    /\ wgen = Open_(EmptyMap).w.wgen
    /\ readers = Open_(EmptyMap).w.readers
    /\ index = Open_(EmptyMap).w.index
    /\ uncompacted = Open_(EmptyMap).w.uncompacted
    /\ total_uncompacted = Open_(EmptyMap).w.total_uncompacted
    /\ status = "open"
    /\ live = [k \in Keys |-> 0]
    /\ removed = {}
    /\ seen = {}
    /\ before = [k \in Keys |-> None]
    /\ gone = ""
    /\ nops = 0
    /\ opens = 0
    /\ last = Event("open", "", "Ok", 0, <<>>, FALSE)
    /\ SharedStart
    /\ PoolStart
    /\ ServerStart

\* KvStore::set(key, value); the n-th call writes the value n
Set(k, v) ==
    /\ UNCHANGED <<sharedVars, poolVars, serverVars>>
    /\ status = "open"
    /\ nops < MaxOps
    /\ v = nops + 1
    /\ LET w1 == SetWrite(World, k, v)
       IN \E o \in AfterWrite(w1) :
            /\ Returned(o, w1, removed \ {k})
            /\ last' = Event("set", k, o.res, WriterPos(w1) - WriterPos(World), o.seqs, o.committed)
            /\ seen' = seen \cup {"set"} \cup (IF o.res = "Ok" THEN {} ELSE {o.res})
    /\ live' = [live EXCEPT ![k] = v]
    /\ nops' = nops + 1

\* KvStore::remove(key)
Remove(k) ==
    /\ UNCHANGED <<sharedVars, poolVars, serverVars>>
    /\ status = "open"
    /\ nops < MaxOps
    /\ LET rw == RemoveWrite(World, k)
       IN \E o \in (IF rw.res = "Ok" THEN AfterWrite(rw.w)
                    ELSE {Outcome(rw.w, rw.res, <<>>, FALSE)}) :
            /\ Returned(o, rw.w, IF o.res = "Ok" THEN removed \cup {k} ELSE removed)
            /\ last' = Event("remove", k, o.res, WriterPos(rw.w) - WriterPos(World), o.seqs, o.committed)
            /\ seen' = seen \cup {"remove"} \cup (IF o.res = "Ok" THEN {} ELSE {o.res})
            /\ live' = IF rw.res = "Ok" THEN [live EXCEPT ![k] = 0] ELSE live
    /\ nops' = nops + 1

\* KvStore::get(key): its answer is Get_(World, key); the expect() on a
\* missing reader ends the process
Get(k) ==
    /\ UNCHANGED <<sharedVars, poolVars, serverVars>>
    /\ status = "open"
    /\ IF Get_(World, k) = GetPanic
       THEN /\ Gone(dir, World, "panic")
            /\ last' = Event("get", k, "Panic", 0, <<>>, FALSE)
            /\ seen' = seen \cup {"Panic"}
            /\ UNCHANGED <<live, nops>>
       ELSE UNCHANGED vars

\* the store is dropped, or the process stops between two calls
Close ==
    /\ UNCHANGED <<sharedVars, poolVars, serverVars>>
    /\ status = "open"
    /\ opens < MaxOpens
    /\ Gone(dir, World, "close")
    /\ last' = Event("close", "", "Ok", 0, <<>>, FALSE)
    /\ seen' = seen \cup {"close"}
    /\ UNCHANGED <<live, nops>>

\* KvStore::open on the directory
Open ==
    /\ UNCHANGED <<sharedVars, poolVars, serverVars>>
    /\ status = "closed"
    /\ LET r == Open_(dir)
       IN /\ Install(r.w)
          /\ status' = IF r.res = "Ok" THEN "open" ELSE "failed"
          /\ last' = Event("open", "", r.res, 0, <<>>, FALSE)
    /\ UNCHANGED <<live, removed, seen, before, gone, nops, opens>>

\* the process stops inside the compaction that set(k, v) triggers
CrashSet(k, v) ==
    /\ UNCHANGED <<sharedVars, poolVars, serverVars>>
    /\ status = "open"
    /\ nops < MaxOps
    /\ opens < MaxOpens
    /\ v = nops + 1
    /\ LET w1 == SetWrite(World, k, v)
       IN \E o \in CrashInCompact(w1) :
            /\ o.res = "Crash"
            /\ Gone(o.w.dir, w1, "crash")
            /\ last' = Event("crash", k, "Crash", SetLen(k), o.seqs, FALSE)
    /\ seen' = seen \cup {"set", "crash"}
    /\ live' = [live EXCEPT ![k] = v]
    /\ nops' = nops + 1

\* the process stops inside the compaction that remove(k) triggers
CrashRemove(k) ==
    /\ UNCHANGED <<sharedVars, poolVars, serverVars>>
    /\ status = "open"
    /\ nops < MaxOps
    /\ opens < MaxOpens
    /\ LET rw == RemoveWrite(World, k)
       IN /\ rw.res = "Ok"
          /\ \E o \in CrashInCompact(rw.w) :
                /\ o.res = "Crash"
                /\ Gone(o.w.dir, rw.w, "crash")
                /\ last' = Event("crash", k, "Crash", RmLen(k), o.seqs, FALSE)
    /\ seen' = seen \cup {"remove", "crash"}
    /\ live' = [live EXCEPT ![k] = 0]
    /\ nops' = nops + 1

\* the process stops while set or remove appends its record: n bytes of it,
\* fewer than the shortest record, have reached the file
Torn(n) ==
    /\ UNCHANGED <<sharedVars, poolVars, serverVars>>
    /\ status = "open"
    /\ nops < MaxOps
    /\ opens < MaxOpens
    /\ Gone(WriterWrite(World, Junk(n)).dir, World, "torn")
    /\ last' = Event("torn", "", "Crash", n, <<>>, FALSE)
    /\ seen' = seen \cup {"torn"}
    /\ nops' = nops + 1
    /\ UNCHANGED live

\* KvStore::set(key, value) whose append fails with an I/O error
SetIoError(k, v, n) ==
    /\ UNCHANGED <<sharedVars, poolVars, serverVars>>
    /\ status = "open"
    /\ nops < MaxOps
    /\ v = nops + 1
    /\ LET o == SetFailed(World, k, v, n)
       IN /\ Install(o.w)
          /\ last' = Event("set", k, o.res, WriterPos(o.w) - WriterPos(World), <<>>, FALSE)
    /\ seen' = seen \cup {"set", "Io"}
    /\ nops' = nops + 1
    /\ UNCHANGED <<status, live, removed, before, gone, opens>>

\* KvStore::remove(key) whose append fails with an I/O error
RemoveIoError(k, n) ==
    /\ UNCHANGED <<sharedVars, poolVars, serverVars>>
    /\ status = "open"
    /\ nops < MaxOps
    /\ LET o == RemoveFailed(World, k, n)
       IN /\ Install(o.w)
          /\ last' = Event("remove", k, o.res, WriterPos(o.w) - WriterPos(World), <<>>, FALSE)
    /\ seen' = seen \cup {"remove", "Io"}
    /\ nops' = nops + 1
    /\ UNCHANGED <<status, live, removed, before, gone, opens>>

\* KvStore::set or remove whose compaction fails in commit_compact with an
\* I/O error: the call returns Err after its own write
CommitFails(op, k) ==
    /\ UNCHANGED <<sharedVars, poolVars, serverVars>>
    /\ status = "open"
    /\ nops < MaxOps
    /\ op = "remove" => k \in DOMAIN index
    /\ LET w1 == IF op = "set" THEN SetWrite(World, k, nops + 1) ELSE RemoveWrite(World, k).w
       IN \E o \in FailInCommit(w1) :
            /\ Install(o.w)
            /\ last' = Event(op, k, o.res, WriterPos(w1) - WriterPos(World), o.seqs, FALSE)
    /\ seen' = seen \cup {op, "CommitErr"}
    /\ live' = [live EXCEPT ![k] = IF op = "set" THEN nops + 1 ELSE 0]
    /\ removed' = IF op = "set" THEN removed \ {k} ELSE removed \cup {k}
    /\ nops' = nops + 1
    /\ UNCHANGED <<status, before, gone, opens>>

\* ------------------------------------------------------------ project4: threads on one store
\* the store thread t's handle leads to, with the directory
Cell(t) == [d |-> disk, st |-> inner[Handle(t)]]

Put(t, x) ==
    /\ disk' = x.d
    /\ inner' = [inner EXCEPT ![Handle(t)] = x.st]

Goto(t, label) == pc' = [pc EXCEPT ![t] = label]

Done(kind) == [kind |-> kind, value |-> 0]

\* the writes of key k in `serial`, in order
RECURSIVE WritesOf(_, _)
WritesOf(q, k) ==
    IF q = <<>> THEN <<>>
    ELSE (IF Head(q).key = k THEN <<Head(q)>> ELSE <<>>) \o WritesOf(Tail(q), k)

\* a thread calls set, get or remove on its clone of the handle; the n-th
\* call, if it is a set, writes the value n
Call(t, op, k) ==
    /\ pc[t] = "idle"
    /\ ncalls < MaxCalls
    /\ call' = [call EXCEPT ![t] = [NoCall EXCEPT !.op = op, !.key = k,
                                                  !.value = ncalls + 1,
                                                  !.floor = returned[k]]]
    /\ Goto(t, "called")
    /\ ncalls' = ncalls + 1
    /\ UNCHANGED <<disk, inner, lock, serial, returned, kvVars, poolVars, serverVars>>

\* self.inner.write().unwrap(): wait for the lock; a poisoned lock panics
Lock(t) ==
    /\ pc[t] = "called"
    /\ IF ~Guarded(call[t].op)
       THEN Goto(t, "locked") /\ UNCHANGED lock
       ELSE IF lock[Handle(t)] = 0 - 1
       THEN Goto(t, "dead") /\ UNCHANGED lock
       ELSE /\ CanLock(lock[Handle(t)])
            /\ lock' = [lock EXCEPT ![Handle(t)] = t]
            /\ Goto(t, "locked")
    /\ UNCHANGED <<disk, inner, call, serial, returned, ncalls, kvVars, poolVars, serverVars>>

\* SharedKvStore::set: let pos = self.writer.pos; serde_json::to_writer
SetAppend(t) ==
    /\ pc[t] = "locked"
    /\ call[t].op = "set"
    /\ call' = [call EXCEPT ![t].pos = Cell(t).st.wpos]
    /\ Put(t, [Cell(t) EXCEPT !.st = ToWriter(@, Command4_set(call[t].key, call[t].value))])
    /\ Goto(t, "written")
    /\ UNCHANGED <<lock, serial, returned, ncalls, kvVars, poolVars, serverVars>>

\* SharedKvStore::remove: contains_key, then serde_json::to_writer
RemoveCheck(t) ==
    /\ pc[t] = "locked"
    /\ call[t].op = "remove"
    /\ IF call[t].key \in DOMAIN Cell(t).st.index
       THEN /\ Put(t, [Cell(t) EXCEPT !.st = ToWriter(@, Command4_remove(call[t].key))])
            /\ Goto(t, "written")
            /\ UNCHANGED call
       ELSE /\ call' = [call EXCEPT ![t].res = Done("KeyNotFound")]
            /\ Goto(t, "return")
            /\ UNCHANGED <<disk, inner>>
    /\ UNCHANGED <<lock, serial, returned, ncalls, kvVars, poolVars, serverVars>>

\* self.writer.flush() of set and remove
WriterFlush(t) ==
    /\ pc[t] = "written"
    /\ Put(t, Flush(Cell(t)))
    /\ Goto(t, "flushed")
    /\ UNCHANGED <<lock, call, serial, returned, ncalls, kvVars, poolVars, serverVars>>

\* SharedKvStore::set: index.insert, uncompacted, and the test for compact
SetIndex(t) ==
    /\ pc[t] = "flushed"
    /\ call[t].op = "set"
    /\ LET st == SharedSet_index(Cell(t).st, call[t].key, call[t].pos)
           q == Append(serial, [op |-> "set", key |-> call[t].key,
                                value |-> call[t].value, by |-> t])
       IN /\ Put(t, [Cell(t) EXCEPT !.st = st])
          /\ serial' = q
          /\ call' = [call EXCEPT ![t].at = Len(WritesOf(q, call[t].key)),
                                  ![t].res = Done("Ok")]
          /\ Goto(t, IF st.uncompacted > COMPACTION_THRESHOLD THEN "compact" ELSE "return")
    /\ UNCHANGED <<lock, returned, ncalls, kvVars, poolVars, serverVars>>

\* SharedKvStore::remove: index.remove and uncompacted
RemoveIndex(t) ==
    /\ pc[t] = "flushed"
    /\ call[t].op = "remove"
    /\ LET r == SharedRemove_index(Cell(t).st, call[t].key)
           q == IF r.res = "Ok"
                THEN Append(serial, [op |-> "remove", key |-> call[t].key,
                                     value |-> 0, by |-> t])
                ELSE serial
       IN /\ Put(t, [Cell(t) EXCEPT !.st = r.st])
          /\ serial' = q
          /\ call' = [call EXCEPT ![t].at = IF r.res = "Ok"
                                            THEN Len(WritesOf(q, call[t].key)) ELSE 0,
                                  ![t].res = Done(r.res)]
          /\ Goto(t, "return")
    /\ UNCHANGED <<lock, returned, ncalls, kvVars, poolVars, serverVars>>

\* SharedKvStore::compact, lines 382-402: new files, the copy loop
CompactRewrite(t) ==
    /\ pc[t] = "compact"
    /\ LET r == SharedCompact_rewrite(Cell(t))
       IN /\ Put(t, r.x)
          /\ call' = [call EXCEPT ![t].cgen = r.cgen, ![t].cbuf = r.cbuf,
                                  ![t].res = IF r.panic THEN Done("Panic") ELSE @]
          /\ Goto(t, IF r.panic THEN "return" ELSE "compacted")
    /\ UNCHANGED <<lock, serial, returned, ncalls, kvVars, poolVars, serverVars>>

\* SharedKvStore::compact, lines 403-419: flush, delete the stale files
CompactCommit(t) ==
    /\ pc[t] = "compacted"
    /\ Put(t, SharedCompact_commit(Cell(t), call[t].cgen, call[t].cbuf))
    /\ call' = [call EXCEPT ![t].cbuf = <<>>]
    /\ Goto(t, "return")
    /\ UNCHANGED <<lock, serial, returned, ncalls, kvVars, poolVars, serverVars>>

\* SharedKvStore::get: self.index.get(&key)
GetLookup(t) ==
    /\ pc[t] = "locked"
    /\ call[t].op = "get"
    /\ IF call[t].key \in DOMAIN Cell(t).st.index
       THEN /\ call' = [call EXCEPT ![t].cmd_pos = Cell(t).st.index[call[t].key]]
            /\ Goto(t, "looked")
       ELSE /\ call' = [call EXCEPT ![t].res = None]
            /\ Goto(t, "return")
    /\ UNCHANGED <<disk, inner, lock, serial, returned, ncalls, kvVars, poolVars, serverVars>>

\* SharedKvStore::get: the reader, seek, take, from_reader
GetRead(t) ==
    /\ pc[t] = "looked"
    /\ call' = [call EXCEPT ![t].res = SharedGet_read(Cell(t), call[t].cmd_pos)]
    /\ Goto(t, "return")
    /\ UNCHANGED <<disk, inner, lock, serial, returned, ncalls, kvVars, poolVars, serverVars>>

\* the call returns and its guard is dropped; a panic poisons the lock and
\* ends the thread
Return(t) ==
    /\ pc[t] = "return"
    /\ lock' = IF lock[Handle(t)] = t
               THEN [lock EXCEPT ![Handle(t)] = IF call[t].res.kind = "Panic" THEN 0 - 1 ELSE 0]
               ELSE lock
    /\ returned' = IF call[t].at > returned[call[t].key]
                   THEN [returned EXCEPT ![call[t].key] = call[t].at]
                   ELSE returned
    /\ call' = [call EXCEPT ![t] = NoCall]
    /\ Goto(t, IF call[t].res.kind = "Panic" THEN "dead" ELSE "idle")
    /\ UNCHANGED <<disk, inner, serial, ncalls, kvVars, poolVars, serverVars>>

\* SharedKvStore::compact returns an I/O error from its loop or its flush
CompactFails(t, i, flushed) ==
    /\ pc[t] = "compact"
    /\ ~SharedCompact_rewrite(Cell(t)).panic
    /\ i <= Len(KeySeq) => KeySeq[i] \in DOMAIN Cell(t).st.index
    /\ Put(t, SharedCompact_fail(Cell(t), i, flushed))
    /\ call' = [call EXCEPT ![t].res = Done("Err")]
    /\ Goto(t, "return")
    /\ UNCHANGED <<lock, serial, returned, ncalls, kvVars, poolVars, serverVars>>

SharedNext ==
    \/ \E t \in Threads, op \in {"set", "get", "remove"}, k \in SharedKeys : Call(t, op, k)
    \/ \E t \in Threads : Lock(t)
    \/ \E t \in Threads : SetAppend(t)
    \/ \E t \in Threads : RemoveCheck(t)
    \/ \E t \in Threads : WriterFlush(t)
    \/ \E t \in Threads : SetIndex(t)
    \/ \E t \in Threads : RemoveIndex(t)
    \/ \E t \in Threads : CompactRewrite(t)
    \/ \E t \in Threads : CompactCommit(t)
    \/ \E t \in Threads : GetLookup(t)
    \/ \E t \in Threads : GetRead(t)
    \/ \E t \in Threads : Return(t)

SharedSpec == Init /\ [][SharedNext]_vars

\* the shared store on a disk whose reads and writes can fail during compact
FaultNext ==
    \/ SharedNext
    \/ \E t \in Threads, i \in 1..(Len(KeySeq) + 1), flushed \in BOOLEAN : CompactFails(t, i, flushed)

FaultSpec == Init /\ [][FaultNext]_vars

\* ------------------------------------------------------------ project4: the pool at work
\* ThreadPool::spawn: send on the zero-capacity channel waits for a worker to
\* take the job; with every receiver gone it fails and expect panics
Spawn(j) ==
    /\ pool = "alive"
    /\ sending = "none"
    /\ spawned < MaxJobs
    /\ spawned' = spawned + 1
    /\ ran' = Append(ran, NewJob)
    /\ IF \A w \in PoolWorkers : workers[w] = "exited"
       THEN pool' = "panicked" /\ UNCHANGED sending
       ELSE sending' = j /\ UNCHANGED pool
    /\ UNCHANGED <<workers, job, caught, kvVars, sharedVars, serverVars>>

\* run: rx.try_recv() returns Ok(f), a job a spawn is waiting to hand over
TakeJob(w) ==
    /\ workers[w] = "polling"
    /\ sending # "none"
    /\ workers' = [workers EXCEPT ![w] = "running"]
    /\ job' = [job EXCEPT ![w] = sending]
    /\ sending' = AfterRecv(sending)
    /\ ran' = [ran EXCEPT ![spawned] = [@ EXCEPT !.w = w, !.starts = @ + 1]]
    /\ UNCHANGED <<pool, spawned, caught, kvVars, sharedVars, serverVars>>

\* run: the job ends, by returning or by panicking
RunJob(w) ==
    /\ workers[w] = "running"
    /\ workers' = [workers EXCEPT ![w] = CatchUnwind(job[w])]
    /\ caught' = [caught EXCEPT ![w] = IF job[w] = "panic" THEN @ + 1 ELSE @]
    /\ job' = [job EXCEPT ![w] = "none"]
    /\ ran' = [i \in DOMAIN ran |-> IF ran[i].w = w /\ ran[i].ends < ran[i].starts
                                    THEN [ran[i] EXCEPT !.ends = @ + 1] ELSE ran[i]]
    /\ UNCHANGED <<pool, sending, spawned, kvVars, sharedVars, serverVars>>

\* run: rx.try_recv() returns Err(Disconnected): the pool is gone, break
Disconnected(w) ==
    /\ workers[w] = "polling"
    /\ sending = "none"
    /\ pool # "alive"
    /\ workers' = [workers EXCEPT ![w] = OnDisconnected]
    /\ UNCHANGED <<pool, job, sending, spawned, caught, ran, kvVars, sharedVars, serverVars>>

\* the SharedQueueThreadPool is dropped, and its Sender with it
DropPool ==
    /\ pool = "alive"
    /\ sending = "none"
    /\ pool' = "dropped"
    /\ UNCHANGED <<workers, job, sending, spawned, caught, ran, kvVars, sharedVars, serverVars>>

PoolNext ==
    \/ \E j \in {"ok", "panic"} : Spawn(j)
    \/ \E w \in PoolWorkers : TakeJob(w)
    \/ \E w \in PoolWorkers : RunJob(w)
    \/ \E w \in PoolWorkers : Disconnected(w)
    \/ DropPool

PoolSpec == Init /\ [][PoolNext]_vars

\* the pool with its threads scheduled: a worker polls every 100 ms, and a
\* job that was started ends
PoolLiveSpec ==
    /\ Init
    /\ [][PoolNext]_vars
    /\ \A w \in PoolWorkers :
          WF_vars(TakeJob(w)) /\ WF_vars(RunJob(w)) /\ WF_vars(Disconnected(w))

\* ------------------------------------------------------------ project4: the server
\* a client connects to the listener: the connection waits to be accepted
Connect(c) ==
    /\ acceptor # "stopped"
    /\ fate[c].accepted = "no"
    /\ fate' = [fate EXCEPT ![c].accepted = "queued"]
    /\ backlog' = Append(backlog, c)
    /\ UNCHANGED <<stop_flag, acceptor, stream, handle, kvVars, sharedVars, poolVars>>

\* run: listener.incoming() yields the next connection, once the spawn of the
\* round before has returned
Accept ==
    /\ acceptor = "accept"
    /\ sending = "none"
    /\ backlog # <<>>
    /\ stream' = Head(backlog)
    /\ backlog' = Tail(backlog)
    /\ fate' = [fate EXCEPT ![Head(backlog)].accepted = IF stop_flag THEN "late" ELSE "early"]
    /\ acceptor' = "check"
    /\ UNCHANGED <<stop_flag, handle, kvVars, sharedVars, poolVars>>

\* run: if cond.load(SeqCst) { break; }: the loop ends, and the stream, the
\* listener and the thread pool are dropped
Check ==
    /\ acceptor = "check"
    /\ IF stop_flag
       THEN acceptor' = "stopped" /\ pool' = "dropped"
       ELSE acceptor' = "spawn" /\ UNCHANGED pool
    /\ UNCHANGED <<stop_flag, backlog, stream, handle, fate, kvVars, sharedVars,
                   workers, job, sending, spawned, caught, ran>>

\* run: thread_pool.spawn(move || handle_connection(engine, stream)); the send
\* waits for a worker
Handover ==
    /\ acceptor = "spawn"
    /\ sending = "none"
    /\ sending' = "ok"
    /\ spawned' = spawned + 1
    /\ ran' = Append(ran, NewJob)
    /\ fate' = [fate EXCEPT ![stream].job = spawned + 1]
    /\ acceptor' = "accept"
    /\ UNCHANGED <<stop_flag, backlog, stream, handle, kvVars, sharedVars,
                   pool, workers, job, caught>>

\* shutdown: stop_flag.compare_exchange(false, true, SeqCst, SeqCst)
ShutdownFlag ==
    /\ handle = "idle"
    /\ IF stop_flag = FALSE
       THEN stop_flag' = TRUE /\ handle' = "flagged"
       ELSE handle' = "returned" /\ UNCHANGED stop_flag
    /\ UNCHANGED <<acceptor, backlog, stream, fate, kvVars, sharedVars, poolVars>>

\* shutdown: TcpStream::connect(self.addr)?, then Ok(()); the connect is
\* refused when the listener is gone
ShutdownConnect ==
    /\ handle = "flagged"
    /\ IF acceptor # "stopped"
       THEN /\ backlog' = Append(backlog, 0)
            /\ fate' = [fate EXCEPT ![0].accepted = "queued"]
            /\ handle' = "returned"
       ELSE handle' = "failed" /\ UNCHANGED <<backlog, fate>>
    /\ UNCHANGED <<stop_flag, acceptor, stream, kvVars, sharedVars, poolVars>>

ServerNext ==
    \/ \E c \in Conns \ {0} : Connect(c)
    \/ Accept
    \/ Check
    \/ Handover
    \/ ShutdownFlag
    \/ ShutdownConnect
    \/ \E w \in PoolWorkers : TakeJob(w)
    \/ \E w \in PoolWorkers : RunJob(w)
    \/ \E w \in PoolWorkers : Disconnected(w)

\* the server with its threads scheduled: the thread of run and the workers
\* of the pool go on, and a connection that is served comes to its end
ServerSpec ==
    /\ Init
    /\ [][ServerNext]_vars
    /\ WF_vars(Accept) /\ WF_vars(Check) /\ WF_vars(Handover)
    /\ \A w \in PoolWorkers :
          WF_vars(TakeJob(w)) /\ WF_vars(RunJob(w)) /\ WF_vars(Disconnected(w))

\* ------------------------------------------------------------ project2: the selection alone
MaxGens == 4

\* staleness a generation can have: a Rm record, a Set record, both, and the
\* records of the long key
StaleSizes == {RmLen("a"), SetLen("a"), SetLen("a") + RmLen("a"), RmLen("c"), SetLen("c")}

\* the statistics of a store with up to MaxGens stale generations; the
\* directory and the index play no part in the selection
SelectInit ==
    /\ \E G \in SUBSET (1..MaxGens) : uncompacted \in [G -> StaleSizes]
    /\ total_uncompacted = SumTo([g \in 1..MaxGens |->
                                     [len |-> IF g \in DOMAIN uncompacted THEN uncompacted[g] ELSE 0]],
                                 MaxGens)
    /\ dir = Open_(EmptyMap).w.dir
    /\ detached = EmptyMap
    /\ sequence_no = Open_(EmptyMap).w.sequence_no
    /\ wgen = Open_(EmptyMap).w.wgen
    /\ readers = Open_(EmptyMap).w.readers
    /\ index = Open_(EmptyMap).w.index
    /\ status = "open"
    /\ live = [k \in Keys |-> 0]
    /\ removed = {}
    /\ seen = {}
    /\ before = [k \in Keys |-> None]
    /\ gone = ""
    /\ nops = 0
    /\ opens = 0
    /\ last = Event("open", "", "Ok", 0, <<>>, FALSE)
    /\ SharedStart
    /\ PoolStart
    /\ ServerStart

\* try_trigger_compact up to the end of its selection loop
Select ==
    /\ last.op = "open"
    /\ total_uncompacted >= COMPACTABLE_THRESHOLD
    /\ \E sel \in Selections(uncompacted) :
          last' = Event("select", "", "Ok", sel.bytes, sel.seqs, FALSE)
    /\ UNCHANGED <<dir, detached, status, sequence_no, wgen, readers, index, uncompacted,
                   total_uncompacted, live, removed, seen, gone, before, nops, opens>>
    /\ UNCHANGED <<sharedVars, poolVars, serverVars>>

SelectNext == Select

SelectSpec == SelectInit /\ [][SelectNext]_vars

\* ------------------------------------------------------------ a store with four stale generations
\* the keys of a sequence of KvStore::set calls on a new store.  It fills
\* three generations that each hold one record superseded later (x1, x2, x3,
\* the three stalest, together COMPACTED_ONCE_BYTES or more) before live
\* records, one of them of FILE_THRESHOLD bytes, and three generations that
\* each hold a superseded record of y
Script == <<"x1", "M1", "B1", "x2", "M2", "B2", "x3", "m3", "m4", "B3",
            "x1", "x2", "x3", "y", "F4", "y", "F5", "y">>

\* the store after the calls Script[i..]; none of them reaches the
\* compaction threshold, so each call has one outcome
RECURSIVE Replayed(_, _, _)
Replayed(script, w, i) ==
    IF i > Len(script) THEN w
    ELSE Replayed(script, (CHOOSE o \in AfterWrite(SetWrite(w, script[i], i)) : TRUE).w, i + 1)

\* orders in which self.index.keys() can yield the keys of the three stalest
\* generations: the rotations of one order
ScriptOrders ==
    LET s == <<"B1", "B2", "B3", "M1", "m3", "M2", "m4">>
    IN {[i \in 1..Len(s) |-> s[((i + r - 1) % Len(s)) + 1]] : r \in 0..(Len(s) - 1)}

\* the store after the script and the write of the next call, set("y"),
\* which reaches the threshold
Scripted == SetWrite(Replayed(Script, Open_(EmptyMap).w, 1), "y", Len(Script) + 1)

\* the outcomes of a process that stops inside the compaction of the call
\* that wrote w
Leftovers(w) ==
    UNION {UNION {{RunCompact(w, sel, keys, n) : n \in 0..CompactSteps(w, sel, keys)}
                     : keys \in ScriptOrders \cap KeyOrders(w, sel.seqs)}
              : sel \in Selections(w.uncompacted)}

LeftoverInit ==
    /\ \E o \in Leftovers(Scripted) :
         /\ o.res = "Crash"
         /\ dir = o.w.dir
         /\ last = Event("crash", "y", "Crash", SetLen("y"), o.seqs, FALSE)
    /\ detached = EmptyMap
    /\ sequence_no = 0
    /\ wgen = 0
    /\ readers = {}
    /\ index = EmptyMap
    /\ uncompacted = EmptyMap
    /\ total_uncompacted = 0
    /\ status = "closed"
    /\ live = [k \in Keys |-> IF k \in DOMAIN Scripted.index THEN Get_(Scripted, k).value ELSE 0]
    /\ removed = {}
    /\ seen = {"set", "crash"}
    /\ before = Gets(Scripted)
    /\ gone = "crash"
    /\ nops = MaxOps - 1
    /\ opens = 1
    /\ SharedStart
    /\ PoolStart
    /\ ServerStart

\* the open store after the calls of Script that leave one live record in
\* each of the three stalest generations
StaleInit ==
    LET few == SelectSeq(Script, LAMBDA k : k \notin {"M1", "M2", "m3", "m4"})
        w0 == Replayed(few, Open_(EmptyMap).w, 1)
    IN /\ dir = w0.dir
       /\ detached = w0.detached
       /\ sequence_no = w0.sequence_no
       /\ wgen = w0.wgen
       /\ readers = w0.readers
       /\ index = w0.index
       /\ uncompacted = w0.uncompacted
       /\ total_uncompacted = w0.total_uncompacted
       /\ status = "open"
       /\ live = [k \in Keys |-> 0]
       /\ removed = {}
       /\ seen = {"set"}
       /\ before = [k \in Keys |-> None]
       /\ gone = ""
       /\ nops = MaxOps - 2
       /\ opens = 0
       /\ last = Event("set", "y", "Ok", SetLen("y"), <<>>, FALSE)
       /\ SharedStart
       /\ PoolStart
       /\ ServerStart

ScriptInit == LeftoverInit \/ StaleInit

\* the directory of the crash is opened again; set("y") is called; on the
\* store that was never closed a commit_compact can fail
ScriptNext ==
    \/ Open
    \/ \E v \in 1..MaxOps : Set("y", v)
    \/ CommitFails("set", "y") /\ opens = 0

ScriptSpec == ScriptInit /\ [][ScriptNext]_vars

Next ==
    \/ \E k \in Keys, v \in 1..MaxOps : Set(k, v)
    \/ \E k \in Keys : Remove(k)
    \/ \E k \in Keys : Get(k)
    \/ Close
    \/ Open
    \/ \E k \in Keys, v \in 1..MaxOps : CrashSet(k, v)
    \/ \E k \in Keys : CrashRemove(k)
    \/ \E n \in {1, RmOverhead + ShortKeyLen - 1} : Torn(n)
    \/ \E k \in Keys, v \in 1..MaxOps, n \in {0, 1} : SetIoError(k, v, n)
    \/ \E k \in Keys, n \in {0, 1} : RemoveIoError(k, n)
    \/ \E op \in {"set", "remove"}, k \in Keys : CommitFails(op, k)

Spec == Init /\ [][Next]_vars

\* ------------------------------------------------------------ properties
\* the .log files of a directory, and the bytes they hold
Logs(d) == {m \in DOMAIN d : m[2] = "log"}
Tmps(d) == {m \in DOMAIN d : m[2] = "tmp"}
LogsOnly(d) == [m \in Logs(d) |-> d[m]]

RECURSIVE SumOver(_, _)
SumOver(f, S) ==
    IF S = {} THEN 0
    ELSE LET x == CHOOSE y \in S : TRUE IN f[x] + SumOver(f, S \ {x})

LogBytes(d) == SumOver([m \in Logs(d) |-> Size(d[m])], Logs(d))
LiveBytes(idx) == SumOver([k \in DOMAIN idx |-> idx[k].len], DOMAIN idx)
HasJunk(d) == \E m \in Logs(d) : \E i \in 1..Len(d[m]) : d[m][i].t = "Junk"

\* the answers of get are values, not a panic or an error
Answered(g) == \A k \in Keys : g[k].kind \in {"Some", "None"}

\* C1: on a store that has only seen set calls since it was created, get(k)
\* returns Some(v) for the v of the last set(k, v), whatever rolls and
\* compactions those calls ran.
C1_GetReturnsLastSet ==
    (status = "open" /\ opens = 0 /\ seen \subseteq {"set"}) =>
        \A k \in Keys : live[k] # 0 => Get_(World, k) = Some(live[k])

\* C2: a key whose last call on this open store was a remove that returned Ok
\* is answered None by get.
C2_RemovedStaysAbsent ==
    status = "open" => \A k \in removed : Get_(World, k) = None

\* C2 witness: a key is removed and a later call on another key has committed
\* a compaction
C2_Witness ==
    /\ status = "open"
    /\ last.committed
    /\ \E k \in removed : k # last.key /\ Get_(World, k) = None

\* C3: a store on which get answered every key (with a value or with None)
\* and that is dropped and opened again on the same directory answers get(k)
\* for every key as it did before the drop.
C3_ReopenPreserves ==
    (status = "open" /\ last.op = "open" /\ gone = "close" /\ Answered(before)) =>
        \A k \in Keys : Get_(World, k) = before[k]

\* C4: a remove that fails with key-not-found has appended nothing to the log.
C4_AbsentRemoveAppendsNothing ==
    (last.op = "remove" /\ last.res = "KeyNotFound") => last.grew = 0

\* C5: every index entry k -> (seq, pos, len) addresses, in seq.log, exactly
\* one Set record for k that carries the live value of k.
C5_IndexAddressesLiveSet ==
    status = "open" =>
        \A k \in DOMAIN index :
            /\ LogName(index[k].seq) \in DOMAIN dir
            /\ ReadAt(dir[LogName(index[k].seq)], index[k].pos, index[k].len)
                    = Command_set(k, live[k])

\* C6: when the process stops inside a compaction of a store on which get
\* answered every key, opening the directory again succeeds and gives the
\* key-to-value mapping the store had when the compaction began.
C6_CrashInCompactPreserves ==
    (last.op = "open" /\ gone = "crash" /\ Answered(before)) =>
        /\ status = "open"
        /\ \A k \in Keys : Get_(World, k) = before[k]

\* C7: on a store that has been open since it was created, the .log files
\* together hold at most the bytes of the live records plus
\* COMPACTABLE_THRESHOLD + FILE_THRESHOLD, however many calls were made.
C7_DiskBounded ==
    (status = "open" /\ opens = 0) =>
        LogBytes(dir) <= LiveBytes(index) + COMPACTABLE_THRESHOLD + FILE_THRESHOLD

C9_OpenIgnoresTmp ==
    (last.op = "open" /\ status \in {"open", "failed"} /\ Tmps(dir) # {}) =>
        LET pre == IF status = "open" THEN MapDel(dir, LogName(wgen)) ELSE dir
            r == Open_(LogsOnly(pre))
        IN /\ (status = "open") = (r.res = "Ok")
           /\ status = "open" => index = r.w.index /\ Gets(World) = Gets(r.w)

\* C9 witness: an open that succeeded beside a .tmp file and loaded a key
C9_Witness ==
    /\ last.op = "open"
    /\ status = "open"
    /\ Tmps(dir) # {}
    /\ index # EmptyMap

\* C10 as stated: after a record was left partially written at the end of the
\* log, open succeeds and answers from the records that precede it.
C10_TornTailOpens ==
    (last.op = "open" /\ gone = "torn") =>
        /\ status = "open"
        /\ \A k \in Keys : Get_(World, k) = before[k]

\* C10: open on a directory in which a .log file holds a record that does not
\* decode returns an error, and no store comes to exist.
C10_UndecodableFailsOpen ==
    (last.op = "open" /\ HasJunk(dir)) =>
        status = "failed" /\ last.res = "Err" /\ index = EmptyMap /\ readers = {}

\* C10 witness: a set or remove was cut short, and the open that follows failed
C10_Witness ==
    /\ last.op = "open"
    /\ gone = "torn"
    /\ HasJunk(dir)
    /\ status = "failed"

\* C11: a set or remove whose append fails returns the error and leaves the
\* index and the staleness statistics as they were before the call.
C11_FailedAppendKeepsIndex ==
    [][(last'.res = "Io") =>
            /\ index' = index
            /\ uncompacted' = uncompacted
            /\ total_uncompacted' = total_uncompacted]_vars

\* C11 witness: a set or remove failed after part of its record had reached
\* the file, on a store that holds keys and stale bytes
C11_Witness ==
    /\ status = "open"
    /\ last.res = "Io"
    /\ last.grew > 0
    /\ index # EmptyMap
    /\ total_uncompacted > 0

\* C19: on an open store every index entry has a reader for its generation,
\* and get answers Some(v) for it, also after a compaction.
C19_ReaderForEveryPointer ==
    (status = "open" /\ opens = 0 /\ ~HasJunk(dir)) =>
        \A k \in DOMAIN index :
            /\ index[k].seq \in readers
            /\ Get_(World, k).kind = "Some"

\* C20: after a committed compaction every output file holds only records that
\* an index entry addresses, back to back, and every entry into an output
\* file addresses a Set record of its key.
C20_OutputHoldsOnlyLiveRecords ==
    (status = "open" /\ last.committed) =>
        \A g \in (sequence_no - Len(last.seqs))..(sequence_no - 1) :
            LogName(g) \in DOMAIN dir =>
                LET c == dir[LogName(g)]
                IN /\ \A i \in 1..Len(c) :
                        \E k \in DOMAIN index :
                            index[k] = Pointer(g, Offset(c, i), c[i].len)
                   /\ \A k \in DOMAIN index :
                        index[k].seq = g =>
                            LET r == ReadAt(c, index[k].pos, index[k].len)
                            IN r.t = "Set" /\ r.key = k

\* ------------------------------------------------------------ project4: what the claims speak of
\* what a get must answer right after the j-th write of a key's writes q
ValAt(q, j) ==
    IF j = 0 THEN None
    ELSE IF q[j].op = "set" THEN Some(q[j].value) ELSE None

\* the label of a thread that is inside set, get or remove
Inside(t) ==
    pc[t] \in {"locked", "written", "flushed", "compact", "compacted", "looked", "return"}

\* a thread that is appending to the log or compacting it
Writing(t) == pc[t] \in {"written", "flushed", "compact", "compacted"}

\* C12: a get that is about to return answers the value of a write of its key
\* that is not older than the last write that had returned when the get was
\* called: the value of a returned set or of a later set, None after a
\* returned remove unless a later set came, and never a value nobody wrote.
C12_GetSeesReturnedSet ==
    \A t \in Threads :
        (pc[t] = "return" /\ call[t].op = "get") =>
            LET q == WritesOf(serial, call[t].key)
            IN \E j \in call[t].floor..Len(q) : call[t].res = ValAt(q, j)

C12_Witness ==
    \E t \in Threads :
        /\ pc[t] = "return"
        /\ call[t].op = "get"
        /\ call[t].floor >= 2
        /\ call[t].res.kind = "Some"
        /\ \E i \in 1..Len(serial) : serial[i].key = call[t].key /\ serial[i].op = "remove"

\* C13: when no call is running, what the index answers for every key is what
\* the writes answer when they are applied one after the other in the order in
\* which they took the lock.
C13_WritesAreSerial ==
    (\A t \in Threads : pc[t] = "idle") =>
        \A k \in SharedKeys :
            LET q == WritesOf(serial, k)
            IN SharedGet(Cell(1), k) = ValAt(q, Len(q))

C13_Witness ==
    /\ \A t \in Threads : pc[t] = "idle"
    /\ Len(serial) = MaxCalls
    /\ \E i, j \in 1..Len(serial) :
          /\ serial[i].by # serial[j].by
          /\ serial[i].key = serial[j].key
    /\ \E i, j \in 1..Len(serial) : serial[i].key # serial[j].key
    /\ LogName(2) \in DOMAIN disk

\* C14: every clone leads to the one store, and a get through one clone that
\* starts after a write through another clone has returned, with no write of
\* the key in between, answers that write.
C14_ClonesShareTheStore ==
    /\ \A t, u \in Threads : Handle(t) = Handle(u)
    /\ \A u \in Threads :
          (pc[u] = "return" /\ call[u].op = "get") =>
              LET q == WritesOf(serial, call[u].key)
              IN (Len(q) > 0 /\ call[u].floor = Len(q) /\ q[Len(q)].by # u) =>
                     call[u].res = ValAt(q, Len(q))

C14_Witness ==
    \E u \in Threads :
        /\ pc[u] = "return"
        /\ call[u].op = "get"
        /\ LET q == WritesOf(serial, call[u].key)
           IN /\ Len(q) > 0
              /\ call[u].floor = Len(q)
              /\ q[Len(q)].by # u
              /\ q[Len(q)].op = "set"
              /\ call[u].res = Some(q[Len(q)].value)

\* C15: a thread that is inside set, get or remove holds the lock from its
\* first step to its return, so at most one thread is inside, and at most one
\* thread appends to the log or compacts it.
C15_OneThreadInside ==
    /\ \A t \in Threads : Inside(t) => lock[Handle(t)] = t
    /\ \A t, u \in Threads : (Inside(t) /\ Inside(u)) => t = u
    /\ \A t, u \in Threads : (Writing(t) /\ Writing(u)) => t = u

C15_Witness ==
    \E t, u \in Threads :
        /\ pc[t] = "compacted"
        /\ pc[u] = "called"
        /\ lock[Handle(u)] = t

\* C16: a get that has taken a pointer from the index finds the reader and
\* the file of the pointer's generation, and no get is between its lookup
\* and its read while another thread compacts.
C16_CompactionAtomicForGet ==
    \A t \in Threads :
        pc[t] = "looked" =>
            /\ call[t].cmd_pos.gen \in Cell(t).st.readers
            /\ LogName(call[t].cmd_pos.gen) \in DOMAIN disk
            /\ \A u \in Threads : pc[u] \notin {"compact", "compacted"}

C16_Witness ==
    \E t \in Threads :
        /\ pc[t] = "looked"
        /\ LogName(1) \notin DOMAIN disk
        /\ call[t].cmd_pos.gen \in Cell(t).st.readers

\* C17: the bytes of a pointer that a get has taken from the index are all in
\* the file and are the whole Set record of the key, for a pointer that set
\* inserted and for a pointer that compaction rewrote.
C17_PointerBytesAreFlushed ==
    \A t \in Threads :
        (pc[t] = "looked" /\ LogName(call[t].cmd_pos.gen) \in DOMAIN disk) =>
            LET c == disk[LogName(call[t].cmd_pos.gen)]
                r == ReadAt(c, call[t].cmd_pos.pos, call[t].cmd_pos.len)
            IN /\ call[t].cmd_pos.pos + call[t].cmd_pos.len <= Size(c)
               /\ r.t = "Set"
               /\ r.key = call[t].key
               /\ r.len = call[t].cmd_pos.len

C17_Witness ==
    \E t \in Threads :
        /\ pc[t] = "looked"
        /\ call[t].cmd_pos.gen = 2
        /\ call[t].cmd_pos.len = SetOverhead + ShortKeyLen + BigValueLen
        /\ Size(disk[LogName(2)]) >= call[t].cmd_pos.pos + call[t].cmd_pos.len

\* C18: while the pool lives, the number of workers that have not left their
\* loop is the thread count, whatever number of jobs have panicked.
C18_PanicKeepsWorker ==
    pool = "alive" =>
        Cardinality({w \in PoolWorkers : workers[w] # "exited"}) = PoolThreads

C18_Witness ==
    \E w \in PoolWorkers :
        /\ pool = "alive"
        /\ caught[w] >= 1
        /\ workers[w] = "running"
        /\ job[w] = "ok"

\* ------------------------------------------------------------ project2: compaction and statistics
\* generation g of directory d has a .log file that holds a record of kind t
\* for key k
Holds(d, g, t, k) ==
    /\ LogName(g) \in DOMAIN d
    /\ \E i \in 1..Len(d[LogName(g)]) : d[LogName(g)][i].t = t /\ d[LogName(g)][i].key = k

\* the store as the next set or remove leaves it before try_trigger_compact
Written(op, k) ==
    IF op = "set" THEN SetWrite(World, k, nops + 1) ELSE RemoveWrite(World, k).w

\* C21: when a set or remove commits a compaction, no selected generation
\* that held a Rm record of a key is deleted while an older generation that
\* holds a Set record of that key keeps its .log file.
C21_TombstoneOutlivesSet ==
    [][(last'.op \in {"set", "remove"} /\ last'.committed) =>
            \A g \in SeqSet(last'.seqs) : \A k \in Keys :
                Holds(Written(last'.op, last'.key).dir, g, "Rm", k) =>
                    ~\E h \in 1..(g - 1) : Holds(dir', h, "Set", k)]_vars

\* C22: after open and after a committed compaction the writer's generation
\* is greater than the generation of every other file of the directory, and
\* the writer's log file still has its name: no rename has replaced it.
C22_WriterGenIsGreatest ==
    (status = "open" /\ (last.op = "open" \/ last.committed)) =>
        /\ \A name \in DOMAIN dir \ {LogName(wgen)} : name[1] < wgen
        /\ LogName(wgen) \in DOMAIN dir
        /\ wgen \notin DOMAIN detached

\* the bytes of content c that no entry of index idx into generation g addresses
Unaddressed(idx, g, c) ==
    LET addressed == {i \in 1..Len(c) :
                         \E k \in DOMAIN idx : idx[k] = Pointer(g, Offset(c, i), c[i].len)}
    IN SumOver([i \in 1..Len(c) |-> IF i \in addressed THEN 0 ELSE c[i].len], 1..Len(c))

\* the staleness counter of generation g, 0 without an entry
Staleness(unc, g) == IF g \in DOMAIN unc THEN unc[g] ELSE 0

\* C23: between the calls of a store that has only seen set and remove calls
\* that returned Ok, the staleness counter of every generation is the number
\* of bytes of its .log file that no index entry addresses, every index entry
\* addresses a record of its .log file, and no two entries address bytes in
\* common.
C23_StalenessIsUnaddressedBytes ==
    (status = "open" /\ opens = 0 /\ seen \subseteq {"set", "remove"}) =>
        /\ \A name \in Logs(dir) :
              Staleness(uncompacted, name[1]) = Unaddressed(index, name[1], dir[name])
        /\ \A k \in DOMAIN index :
              /\ LogName(index[k].seq) \in DOMAIN dir
              /\ index[k].pos + index[k].len <= Size(dir[LogName(index[k].seq)])
        /\ \A k, j \in DOMAIN index :
              (k # j /\ index[k].seq = index[j].seq) =>
                  \/ index[k].pos + index[k].len <= index[j].pos
                  \/ index[j].pos + index[j].len <= index[k].pos

\* C24: on an open store total_uncompacted is the sum of the staleness
\* counters, and for every set or remove that could come next, what
\* commit_compact would subtract is at most total_uncompacted.
C24_TotalIsSumOfStaleness ==
    status = "open" =>
        /\ total_uncompacted = SumOver(uncompacted, DOMAIN uncompacted)
        /\ \A op \in {"set", "remove"} : \A k \in Keys :
              \A sel \in Selections(Written(op, k).uncompacted) :
                  sel.bytes <= Written(op, k).total_uncompacted

\* C24 witness: a committed compaction that left stale bytes behind, so that
\* the subtraction took only a part of total_uncompacted
C24_Witness ==
    /\ status = "open"
    /\ last.committed
    /\ total_uncompacted > 0
    /\ opens = 1

\* record i of g.log is followed, in the order of replay, by a record of the
\* same key
Superseded(d, g, i) ==
    \E name \in Logs(d) : \E j \in 1..Len(d[name]) :
        /\ d[name][j].key = d[LogName(g)][i].key
        /\ name[1] > g \/ (name[1] = g /\ j > i)

\* the bytes of g.log that a replay of the directory leaves stale: its Rm
\* records and its Set records that a later record supersedes
StaleIn(d, g) ==
    LET c == d[LogName(g)]
    IN SumOver([i \in 1..Len(c) |->
                    IF c[i].t = "Rm" \/ Superseded(d, g, i) THEN c[i].len ELSE 0], 1..Len(c))

\* C25: after an open that replayed only Set records, the staleness counter
\* of every generation is the length of the Set records of its file that a
\* later Set superseded, and total_uncompacted is the sum of these lengths.
C25_ReplayCreditsOldGeneration ==
    (status = "open" /\ last.op = "open"
        /\ \A name \in Logs(dir) : \A i \in 1..Len(dir[name]) : dir[name][i].t = "Set") =>
        /\ \A name \in Logs(dir) : Staleness(uncompacted, name[1]) = StaleIn(dir, name[1])
        /\ total_uncompacted = SumOver([name \in Logs(dir) |-> StaleIn(dir, name[1])], Logs(dir))

\* seqs takes the generations of unc from the stalest down, and stops at the
\* first one with which the staleness taken reaches COMPACTED_ONCE_BYTES
StalestFirst(unc, seqs) ==
    LET taken(n) == SumOver([i \in 1..n |-> unc[seqs[i]]], 1..n)
    IN /\ \A i \in 1..Len(seqs) : seqs[i] \in DOMAIN unc
       /\ \A i, j \in 1..Len(seqs) : i # j => seqs[i] # seqs[j]
       /\ \A i \in 1..Len(seqs) :
             \A g \in DOMAIN unc \ {seqs[j] : j \in 1..(i - 1)} : unc[seqs[i]] >= unc[g]
       /\ \A n \in 1..(Len(seqs) - 1) : taken(n) < COMPACTED_ONCE_BYTES
       /\ taken(Len(seqs)) >= COMPACTED_ONCE_BYTES \/ SeqSet(seqs) = DOMAIN unc

\* C26: the generations that the compaction of a set or remove selects are
\* the stalest ones of the statistics of that moment, taken in descending
\* order of staleness until COMPACTED_ONCE_BYTES is reached or none is left.
C26_SelectionIsStalestPrefix ==
    [][/\ (last'.op \in {"set", "remove"} /\ last'.seqs # <<>>) =>
              StalestFirst(Written(last'.op, last'.key).uncompacted, last'.seqs)
       /\ last'.op = "select" =>
              /\ StalestFirst(uncompacted, last'.seqs)
              /\ last'.grew = SumOver([i \in 1..Len(last'.seqs) |-> uncompacted[last'.seqs[i]]],
                                      1..Len(last'.seqs))]_vars

\* C26 witness: a selection that needed two generations to reach
\* COMPACTED_ONCE_BYTES and left a less stale one
C26_Witness ==
    /\ last.op = "select"
    /\ Len(last.seqs) = 2
    /\ \E g \in DOMAIN uncompacted \ SeqSet(last.seqs) : uncompacted[g] < uncompacted[last.seqs[2]]

C29_WriterBelowFileThreshold ==
    (status = "open" /\ last.op \in {"set", "remove"} /\ last.res \in {"Ok", "KeyNotFound"}) =>
        WriterPos(World) < FILE_THRESHOLD

\* C30: after an open that returned Ok the writer is on an empty .log file of
\* its own, whose generation is one more than the largest generation of the
\* other .log files, and 1 when there is none.
C30_OpenStartsNewGeneration ==
    (status = "open" /\ last.op = "open") =>
        LET others == {name[1] : name \in Logs(dir) \ {LogName(wgen)}}
        IN /\ sequence_no = wgen
           /\ LogName(wgen) \in DOMAIN dir
           /\ dir[LogName(wgen)] = <<>>
           /\ wgen \notin DOMAIN detached
           /\ \A g \in others : g < wgen
           /\ IF others = {} THEN wgen = 1 ELSE wgen - 1 \in others

\* C30 witness: an open on a directory whose largest generation holds records
C30_Witness ==
    /\ status = "open"
    /\ last.op = "open"
    /\ opens = 1
    /\ wgen > 2
    /\ dir[LogName(wgen - 1)] # <<>>

\* ------------------------------------------------------------ claims C31..C38

\* what get must answer for every key, from the history of the calls
LiveGets == [k \in Keys |-> IF live[k] # 0 THEN Some(live[k]) ELSE None]

\* C31: when a rename or a remove_file of commit_compact fails, the store
\* stays consistent: the failed call leaves the answer of get for every other
\* key as it was and get of the written key returns what was written, the
\* next set or remove is not made to fail, and opening the directory again
\* yields the mapping of the calls made so far.
C31_FailedCommitKeepsStore ==
    [][(status' = "open" /\ last'.res = "CommitErr" /\ nops' = nops + 1) =>
          /\ \A k \in Keys : Gets(World')[k] = IF k = last'.key THEN LiveGets'[k]
                                               ELSE Gets(World)[k]
          /\ LET r == Open_(dir')
             IN r.res = "Ok" /\ Gets(r.w) = LiveGets']_vars
       /\ [][(status = "open" /\ last.res = "CommitErr" /\ last'.op \in {"set", "remove"})
                => last'.res \notin {"Err", "Panic"}]_vars

\* C35: after a crash inside a compaction and a reopen, no <N>.tmp file in the
\* directory has the number of an output of a later compaction, so a set or
\* remove never fails because create_new finds the .tmp file of its output.
C35_LeftoverTmpNeverReused ==
    [][(status = "open" /\ opens > 0 /\ last'.op \in {"set", "remove"}) =>
          ~(/\ last'.res = "Err"
            /\ \E n \in (sequence_no + 1)..(sequence_no + 8) : TmpName(n) \in DOMAIN dir)]_vars

\* C32: when compact fails with an I/O error part-way, no generation file has
\* been deleted and every index entry, rewritten or not, addresses a complete
\* record that holds the value of the last write of its key.
C32_FailedCompactKeepsData ==
    [][\A t \in Threads :
          (pc[t] = "compact" /\ pc'[t] = "return" /\ call'[t].res = Done("Err")) =>
              /\ DOMAIN disk \subseteq DOMAIN disk'
              /\ \A k \in SharedKeys :
                    SharedGet([d |-> disk', st |-> inner'[Handle(t)]], k)
                        = ValAt(WritesOf(serial', k), Len(WritesOf(serial', k)))]_vars

\* C33: every index entry's generation has a reader in the readers map and a
\* log file on disk, at every step of set, remove, get and compact, so the
\* expect("Cannot find log reader") of get and compact never fires.
C33_IndexGenerationHasReader ==
    /\ \A k \in DOMAIN Cell(1).st.index :
          /\ Cell(1).st.index[k].gen \in Cell(1).st.readers
          /\ LogName(Cell(1).st.index[k].gen) \in DOMAIN disk
    /\ \A t \in Threads : call[t].res.kind # "Panic"

C33_Witness ==
    /\ LogName(1) \notin DOMAIN disk
    /\ \E t \in Threads :
          /\ pc[t] = "looked"
          /\ call[t].cmd_pos.gen = 2
          /\ Cell(1).st.index[call[t].key].gen = 2
          /\ Cell(1).st.readers = {2, 3}

\* C34: when compact has returned Ok, every index entry points into the
\* compaction generation, the log files on disk are those of the compaction
\* generation and of the writer's generation, which is the next one, and
\* uncompacted is 0.
C34_AfterCompact ==
    \A t \in Threads :
        (pc[t] = "return" /\ call[t].cgen > 0 /\ call[t].res.kind = "Ok") =>
            /\ \A k \in DOMAIN Cell(t).st.index : Cell(t).st.index[k].gen = call[t].cgen
            /\ DOMAIN disk = {LogName(call[t].cgen), LogName(call[t].cgen + 1)}
            /\ Cell(t).st.current_gen = call[t].cgen + 1
            /\ Cell(t).st.wgen = call[t].cgen + 1
            /\ Cell(t).st.uncompacted = 0

C34_Witness ==
    \E t \in Threads :
        /\ pc[t] = "return"
        /\ call[t].cgen = 2
        /\ call[t].res.kind = "Ok"
        /\ Cardinality(DOMAIN Cell(t).st.index) = 2
        /\ DOMAIN disk = {LogName(2), LogName(3)}

\* C36: with at least one thread every spawned job is executed exactly once by
\* some worker: no job is started twice or ended more often than started,
\* spawn has returned only when a worker has taken its job, and every spawned
\* job is eventually run to its end.
C36_JobRunsExactlyOnce ==
    /\ [](\A i \in 1..Len(ran) : ran[i].starts <= 1 /\ ran[i].ends <= ran[i].starts)
    /\ []((sending = "none" /\ pool # "panicked") =>
             \A i \in 1..Len(ran) : ran[i].starts = 1 /\ ran[i].w \in PoolWorkers)
    /\ \A i \in 1..MaxJobs :
          (Len(ran) >= i) ~> (Len(ran) >= i /\ ran[i].starts = 1 /\ ran[i].ends = 1)

\* every job was spawned and run once, by more than one worker
C36_Witness ==
    /\ Len(ran) = MaxJobs
    /\ \A i \in 1..MaxJobs : ran[i].starts = 1 /\ ran[i].ends = 1
    /\ \E i, j \in 1..MaxJobs : ran[i].w # ran[j].w

\* C37: after the pool is dropped every worker eventually leaves its loop and
\* terminates, once the job it is running has finished.
C37_DroppedPoolWorkersExit ==
    (pool = "dropped") ~> (\A w \in PoolWorkers : workers[w] = "exited" /\ job[w] = "none")

\* the pool was dropped while a job was running, the job ended and every
\* worker has left its loop
C37_Witness ==
    /\ pool = "dropped"
    /\ \A w \in PoolWorkers : workers[w] = "exited"
    /\ \E i \in 1..Len(ran) : ran[i].ends = 1

\* the connection was handed to the pool and its job has run to its end
Served(c) == fate[c].job # 0 /\ ran[fate[c].job].ends = 1

\* once shutdown has returned Ok the loop of run ends
LoopTerminates == (handle = "returned") ~> (acceptor = "stopped")

\* a connection that incoming() yielded after the flag was set gets no job
NoLateHandover == [](\A c \in Conns : fate[c].accepted = "late" => fate[c].job = 0)

\* a connection that incoming() yielded before the flag was set is served
EarlyServed == \A c \in Conns : (fate[c].accepted = "early") ~> Served(c)

\* C38: after ThreadHandle::shutdown returns Ok the accept loop of
\* KvServer::run terminates, no connection accepted after the stop flag was
\* set is handed to the thread pool, and every connection accepted before the
\* flag was set is still served.
C38_ShutdownStopsAccepting == LoopTerminates /\ NoLateHandover /\ EarlyServed

====
